---- MODULE Spec2Model ----
(***************************************************************************)
(* Retrieval -> indicator aggregation pipeline of semantic_measurement.     *)
(*                                                                          *)
(* Similarities are integers in hundredths (55 stands for 0.55).  Results   *)
(* of float divisions are exact rationals [num, den] with den > 0; they are *)
(* compared by cross-multiplication (RatEq, RatLeq).  Floating-point        *)
(* rounding is not modelled.                                                *)
(*                                                                          *)
(* A Python dict is a sequence of entries in insertion order, with pairwise *)
(* distinct keys.                                                           *)
(*                                                                          *)
(* The similarity index is one exact index: a search returns the TopK       *)
(* best-scoring passages, descending by score.                              *)
(*                                                                          *)
(* Further specifications cover the panel builder (SpecPanel) and the       *)
(* threshold calibration: candidate collection (SpecCollect), LLM labeling  *)
(* (SpecLabel), threshold sweep and selection (SpecSweep).                  *)
(***************************************************************************)
EXTENDS Integers, Sequences, FiniteSets, TLC

VARIABLES
    results,        \* results[p]: what search_by_text returns for pattern p
    threshold,      \* ConceptRetriever.threshold
    hits_by_call,   \* result of retrieve_hits()
    batch_done,     \* retrieve_hits() has returned
    access,         \* who drives the generator: "none" | "streaming" | "batched"
    batch_size,     \* argument of retrieve_hits_batched
    g_pc,           \* position of retrieve_hits_streaming: "idle" | "scan" | "yield" | "done"
    g_pat,          \* number of patterns the generator has scanned
    g_hits,         \* the generator's local hits_by_call
    g_pos,          \* number of entries of g_hits the generator has yielded
    streamed,       \* the (call_id, hits) pairs yielded so far, in order
    batch,          \* retrieve_hits_batched's local batch
    batches,        \* the dictionaries retrieve_hits_batched has yielded, in order
    b_done,         \* retrieve_hits_batched has returned
    call_metadata,  \* IndicatorBuilder.call_metadata
    indicators,     \* result of build_indicators(hits_by_call)
    ind_done,       \* build_indicators has returned
    agg_hits,       \* argument hits of one _compute_call_indicators call
    agg_out,        \* its result
    agg_done,       \* the call has returned
    ind_streamed,   \* the (call_id, indicators) pairs build_indicators_streaming has yielded
    ind_batches,    \* the dictionaries build_indicators_batched has yielded, in order
    pb_indicators,  \* argument indicators of PanelBuilder.build
    panel,          \* the rows of the DataFrame PanelBuilder.build returns
    pb_status,      \* "none" | "ok" | "KeyError": how PanelBuilder.build ended
    raw,            \* what collect_candidates_raw returned
    samples_per_bin,\* argument of collect_candidates_stratified
    deduped,        \* what deduplicate_candidates(raw) returned
    final,          \* what collect_candidates_stratified returned
    cc_done,        \* collect_candidates_stratified has returned
    l_candidates,   \* argument candidates of llm_label_candidates
    l_answers,      \* the texts of the responses received so far, in order
    labeled,        \* llm_label_candidates' local labeled
    l_done,         \* llm_label_candidates has returned
    scores,         \* argument scores of sweep_thresholds
    labels,         \* argument labels of sweep_thresholds
    sweep_range,    \* arguments [start, end, step] of sweep_thresholds, in hundredths
    sweep_results,  \* what sweep_thresholds returned
    sweep_done,     \* sweep_thresholds has returned
    strategy,       \* argument strategy of pick_best_threshold
    best,           \* what pick_best_threshold returned
    pick_status,    \* "none" | "ok" | "ValueError": how pick_best_threshold ended
    rv_sample,      \* argument labeled_llm of interactive_review
    rv_keys,        \* the characters _get_single_char has returned so far, in order
    rv_annotated,   \* interactive_review's local annotated
    rv_pc,          \* "idle" | "loop" | "returned": where interactive_review is
    args,           \* the parsed command line of the calibration script
    run_pc,         \* where main() of the calibration script is
    run_error,      \* "none" or the exception that ended the last run
    runs,           \* number of runs of the script started so far
    config_file,    \* content of data/queries/<topic>.json
    annotation_file,\* content of the expert annotation file, <<>> if there is none
    queries,        \* main's local queries
    run_candidates, \* main's local candidates
    run_labeled,    \* main's local labeled
    confirm,        \* main's local confirm, <<>> while the prompt has not been answered
    se_indexes,     \* per loaded index, what its search(q, top_k) returns
    se_top_k,       \* argument top_k of search_by_embedding
    se_pos,         \* number of indexes search_by_embedding has searched
    all_results,    \* search_by_embedding's local all_results
    se_out,         \* what search_by_embedding returned
    se_pc           \* "idle" | "loop" | "returned": where search_by_embedding is

vars == <<results, threshold, hits_by_call, batch_done, access, batch_size, g_pc,
          g_pat, g_hits, g_pos, streamed, batch, batches, b_done,
          call_metadata, indicators, ind_done, agg_hits, agg_out, agg_done,
          ind_streamed, ind_batches, pb_indicators, panel, pb_status,
          raw, samples_per_bin, deduped, final, cc_done,
          l_candidates, l_answers, labeled, l_done,
          scores, labels, sweep_range, sweep_results, sweep_done, strategy, best,
          pick_status,
          rv_sample, rv_keys, rv_annotated, rv_pc,
          args, run_pc, run_error, runs, config_file, annotation_file, queries,
          run_candidates, run_labeled, confirm,
          se_indexes, se_top_k, se_pos, all_results, se_out, se_pc>>

retrVars == <<results, threshold, hits_by_call, batch_done, access, batch_size, g_pc,
              g_pat, g_hits, g_pos, streamed, batch, batches, b_done>>

aggVars == <<agg_hits, agg_out, agg_done>>

ibVars == <<ind_streamed, ind_batches>>

pbVars == <<pb_indicators, panel, pb_status>>

ccVars == <<raw, samples_per_bin, deduped, final, cc_done>>

llVars == <<l_candidates, l_answers, labeled, l_done>>

swVars == <<scores, labels, sweep_range, sweep_results, sweep_done, strategy, best,
            pick_status>>

rvVars == <<rv_sample, rv_keys, rv_annotated, rv_pc>>

runVars == <<args, run_pc, run_error, runs, config_file, annotation_file, queries,
             run_candidates, run_labeled, confirm>>

seVars == <<se_indexes, se_top_k, se_pos, all_results, se_out, se_pc>>

lateVars == <<rvVars, runVars, seVars>>

earlyVars == <<retrVars, call_metadata, indicators, ind_done, aggVars, ibVars, pbVars,
               ccVars, llVars>>

moreVars == <<ibVars, pbVars, ccVars, llVars, swVars, lateVars>>

----------------------------------------------------------------------------
(* Bounds *)

NumPatterns == 2

TopK == 2

MaxBatchSize == 3

MaxHits == 2

Patterns == 1..NumPatterns

----------------------------------------------------------------------------
(* The passage corpus (snippets.json): faiss_id -> snippet.  A snippet      *)
(* may lack "section" and "sentence_count".                                 *)

Snippets ==
    (0 :> [call_id |-> "A", section |-> "management", sentence_count |-> 4]) @@
    (1 :> [call_id |-> "A", section |-> "qa", sentence_count |-> 3]) @@
    (2 :> [call_id |-> "B"]) @@
    (3 :> [call_id |-> "C", section |-> "qa_pair", sentence_count |-> 2])

FaissIds == DOMAIN Snippets

CallIds == {"A", "B", "C", "D"}

Sections == {"management", "qa", "qa_pair"}

Scores == {55, 60}

Thresholds == {55, 60}

----------------------------------------------------------------------------
(* dict helpers *)

Keys(d) == {d[i].call_id : i \in 1..Len(d)}

IndexOfKey(d, k) == CHOOSE i \in 1..Len(d) : d[i].call_id = k

Get(d, k) == d[IndexOfKey(d, k)]

DistinctKeys(d) == \A i, j \in 1..Len(d) : d[i].call_id = d[j].call_id => i = j

\* variant: a passage already recorded for the call is not recorded again
SetDefaultAppend_Dedup(d, k, h) ==
    IF k \in Keys(d)
    THEN IF \E j \in 1..Len(Get(d, k).hits) : Get(d, k).hits[j].faiss_id = h.faiss_id
         THEN d
         ELSE [d EXCEPT ![IndexOfKey(d, k)].hits = Append(@, h)]
    ELSE Append(d, [call_id |-> k, hits |-> <<h>>])

\* hits_by_call.setdefault(k, []).append(h)
SetDefaultAppend(d, k, h) ==
    IF k \in Keys(d)
    THEN [d EXCEPT ![IndexOfKey(d, k)].hits = Append(@, h)]
    ELSE Append(d, [call_id |-> k, hits |-> <<h>>])

----------------------------------------------------------------------------
(* SemanticRetriever over one exact index *)

\* the best-scoring passage of S under the scores sc; equal scores keep index order
Best(sc, S) ==
    CHOOSE f \in S : \A g \in S :
        \/ sc[f] > sc[g]
        \/ sc[f] = sc[g] /\ f <= g

RECURSIVE Ranked(_, _, _)
Ranked(sc, S, k) ==
    IF S = {} \/ k = 0 THEN <<>>
    ELSE LET f == Best(sc, S)
         IN  <<[score |-> sc[f], faiss_id |-> f, snippet |-> Snippets[f]]>>
             \o Ranked(sc, S \ {f}, k - 1)

\* search_by_text(pattern, top_k), for a pattern whose similarity to passage f
\* is sc[f]: the top_k items, descending by score
SearchByText(sc, top_k) == Ranked(sc, FaissIds, top_k)

----------------------------------------------------------------------------
(* ConceptRetriever *)

ParagraphHit(item) ==
    [faiss_id       |-> item.faiss_id,
     similarity     |-> item.score,
     sentence_count |-> IF "sentence_count" \in DOMAIN item.snippet
                        THEN item.snippet.sentence_count ELSE 1,
     section        |-> IF "section" \in DOMAIN item.snippet
                        THEN item.snippet.section ELSE "management",
     call_id        |-> item.snippet.call_id]

\* variant: a result whose score equals the threshold is discarded too
RECURSIVE ProcessItems_DropsEqual(_, _)
ProcessItems_DropsEqual(d, items) ==
    IF items = <<>> THEN d
    ELSE LET item == Head(items)
         IN  IF item.score <= threshold
             THEN ProcessItems_DropsEqual(d, Tail(items))
             ELSE ProcessItems_DropsEqual(
                      SetDefaultAppend(d, item.snippet.call_id, ParagraphHit(item)),
                      Tail(items))

\* retrieve_hits: the loop over one pattern's results
RECURSIVE ProcessItems(_, _)
ProcessItems(d, items) ==
    IF items = <<>> THEN d
    ELSE LET item == Head(items)
         IN  IF item.score < threshold
             THEN ProcessItems(d, Tail(items))
             ELSE ProcessItems(
                      SetDefaultAppend(d, item.snippet.call_id, ParagraphHit(item)),
                      Tail(items))

\* retrieve_hits: the loop over the patterns, from pattern p on
RECURSIVE RetrieveLoop(_, _)
RetrieveLoop(d, p) ==
    IF p > NumPatterns THEN d
    ELSE RetrieveLoop(ProcessItems(d, results[p]), p + 1)

\* variant: a result whose score equals the threshold is discarded too
RECURSIVE ProcessItemsStreaming_DropsEqual(_, _)
ProcessItemsStreaming_DropsEqual(d, items) ==
    IF items = <<>> THEN d
    ELSE LET item == Head(items)
         IN  IF item.score <= threshold
             THEN ProcessItemsStreaming_DropsEqual(d, Tail(items))
             ELSE ProcessItemsStreaming_DropsEqual(
                      SetDefaultAppend(d, item.snippet.call_id, ParagraphHit(item)),
                      Tail(items))

\* retrieve_hits_streaming: the loop over one pattern's results
RECURSIVE ProcessItemsStreaming(_, _)
ProcessItemsStreaming(d, items) ==
    IF items = <<>> THEN d
    ELSE LET item == Head(items)
         IN  IF item.score < threshold
             THEN ProcessItemsStreaming(d, Tail(items))
             ELSE ProcessItemsStreaming(
                      SetDefaultAppend(d, item.snippet.call_id, ParagraphHit(item)),
                      Tail(items))

\* variant: the generator starts yielding once the first pattern is scanned
ScanFinished_AfterFirst(n) == n >= 1

\* retrieve_hits_streaming: the generator may start yielding
ScanFinished(n) == n = NumPatterns

\* variant: the batch is emitted one call late
BatchFull_Strict(b, size) == Len(b) > size

\* retrieve_hits_batched: the batch is full
BatchFull(b, size) == Len(b) >= size

----------------------------------------------------------------------------
(* Exact rationals for the results of float divisions *)

Rat(n, d) == [num |-> n, den |-> d]

RatZero == Rat(0, 1)

RatMul(a, b) == Rat(a.num * b.num, a.den * b.den)

RatEq(a, b) == a.num * b.den = b.num * a.den

RatLeq(a, b) == a.num * b.den <= b.num * a.den

----------------------------------------------------------------------------
(* IndicatorBuilder *)

\* variant: every hit counts as one unit (paragraph-weighted exposure)
SumSentenceCount_ParagraphCount(hits) == Len(hits)

\* sum(h.sentence_count for h in hits)
RECURSIVE SumSentenceCount(_)
SumSentenceCount(hits) ==
    IF hits = <<>> THEN 0
    ELSE Head(hits).sentence_count + SumSentenceCount(Tail(hits))

\* sum(h.similarity for h in hits), in hundredths
RECURSIVE SumSimilarity(_)
SumSimilarity(hits) ==
    IF hits = <<>> THEN 0
    ELSE Head(hits).similarity + SumSimilarity(Tail(hits))

\* [h for h in hits if h.section == "management"]
MgmtHits(hits) == SelectSeq(hits, LAMBDA h : h.section = "management")

\* [h for h in hits if h.section == "qa"]
QaHits(hits) == SelectSeq(hits, LAMBDA h : h.section = "qa")

\* variant: exposure clamped to 1
Exposure_Clamped(hit_sent, sent) ==
    IF sent > 0
    THEN IF hit_sent > sent THEN Rat(1, 1) ELSE Rat(hit_sent, sent)
    ELSE RatZero

\* hit_sent / sent if sent > 0 else 0
Exposure(hit_sent, sent) == IF sent > 0 THEN Rat(hit_sent, sent) ELSE RatZero

\* sum(scores) / len(scores) if scores else 0
AvgSim(hits) ==
    IF Len(hits) > 0 THEN Rat(SumSimilarity(hits), 100 * Len(hits)) ELSE RatZero

EmptyIndicators ==
    [exposure |-> RatZero, avgSim |-> RatZero, intensity |-> RatZero,
     mgmt_exposure |-> RatZero, mgmt_avgSim |-> RatZero, mgmt_intensity |-> RatZero,
     qa_exposure |-> RatZero, qa_avgSim |-> RatZero, qa_intensity |-> RatZero,
     n_hits_total |-> 0, n_hits_mgmt |-> 0, n_hits_qa |-> 0,
     sentences_total_hits |-> 0, sentences_mgmt_hits |-> 0, sentences_qa_hits |-> 0]

Meta(t, m, q) ==
    [total_sentences |-> t, management_sentences |-> m, qa_sentences |-> q]

\* the fields of a metadata record that identify the call
Listing(t, y, q) == [ticker |-> t, year |-> y, quarter |-> q]

\* _compute_call_indicators, once the call's metadata record is found
IndicatorsWithMeta(meta, hits) ==
    LET mgmt_hits == MgmtHits(hits)
        qa_hits   == QaHits(hits)
        exposure      == Exposure(SumSentenceCount(hits), meta.total_sentences)
        mgmt_exposure == Exposure(SumSentenceCount(mgmt_hits), meta.management_sentences)
        qa_exposure   == Exposure(SumSentenceCount(qa_hits), meta.qa_sentences)
    IN  [exposure |-> exposure,
         avgSim |-> AvgSim(hits),
         intensity |-> RatMul(exposure, AvgSim(hits)),
         mgmt_exposure |-> mgmt_exposure,
         mgmt_avgSim |-> AvgSim(mgmt_hits),
         mgmt_intensity |-> RatMul(mgmt_exposure, AvgSim(mgmt_hits)),
         qa_exposure |-> qa_exposure,
         qa_avgSim |-> AvgSim(qa_hits),
         qa_intensity |-> RatMul(qa_exposure, AvgSim(qa_hits)),
         n_hits_total |-> Len(hits),
         n_hits_mgmt |-> Len(mgmt_hits),
         n_hits_qa |-> Len(qa_hits),
         sentences_total_hits |-> SumSentenceCount(hits),
         sentences_mgmt_hits |-> SumSentenceCount(mgmt_hits),
         sentences_qa_hits |-> SumSentenceCount(qa_hits)]

\* variant: a call without a metadata record is treated as one with zero sentences
ComputeCallIndicators_NoGuard(meta_table, call_id, hits) ==
    IndicatorsWithMeta(
        IF call_id \in DOMAIN meta_table THEN meta_table[call_id] ELSE Meta(0, 0, 0),
        hits)

\* _compute_call_indicators(call_id, hits) of IndicatorBuilder(meta_table)
ComputeCallIndicators(meta_table, call_id, hits) ==
    IF call_id \notin DOMAIN meta_table THEN EmptyIndicators
    ELSE IndicatorsWithMeta(meta_table[call_id], hits)

\* build_indicators(hits_by_call): one entry per call, in the order of d
BuildIndicatorsDict(meta_table, d) ==
    [i \in 1..Len(d) |->
        [call_id |-> d[i].call_id,
         ind     |-> ComputeCallIndicators(meta_table, d[i].call_id, d[i].hits)]]

----------------------------------------------------------------------------
(* PanelBuilder *)
(* A DataFrame is the sequence of its rows; a row has its cells, one per    *)
(* column, and the index label (call_id) it had before reset_index dropped  *)
(* the index, kept here as origin.  A cell is Unset (NaN) or Cell(v).       *)
(* Tickers are numbered in alphabetical order.                              *)

Unset == <<>>

Cell(v) == <<v>>

RequiredCols == {"ticker", "year", "quarter"}

\* order of the keys of the call_metadata dictionary
MetadataOrder == <<"A", "B", "C", "D">>

\* the keys of call_metadata, in dictionary order
MetadataKeys(meta_table) ==
    SelectSeq(MetadataOrder, LAMBDA k : k \in DOMAIN meta_table)

\* DataFrame.from_dict(call_metadata, orient="index").columns
MetaColumns(meta_table) == UNION {DOMAIN meta_table[k] : k \in DOMAIN meta_table}

\* DataFrame.from_dict(indicators, orient="index").columns
IndicatorColumns(ind) == UNION {DOMAIN ind[i].ind : i \in 1..Len(ind)}

\* one row of DataFrame.from_dict(..., orient="index"): absent fields are NaN
FromDictRow(rec, cols) ==
    [c \in cols |-> IF c \in DOMAIN rec THEN Cell(rec[c]) ELSE Unset]

\* variant: a required field is missing as soon as one record lacks it
MissingCols_AnyRecord(meta_table) ==
    {c \in RequiredCols : \E k \in DOMAIN meta_table : c \notin DOMAIN meta_table[k]}

\* metadata_to_df: missing = [c for c in required_cols if c not in meta_df.columns]
MissingCols(meta_table) == RequiredCols \ MetaColumns(meta_table)

\* variant: inner join, only the calls that have indicators
JoinIndex_Inner(meta_table, ind) ==
    SelectSeq(MetadataKeys(meta_table), LAMBDA k : k \in Keys(ind))

\* meta_df.join(indicators_df, how="left"): the index of the result
JoinIndex(meta_table, ind) == MetadataKeys(meta_table)

\* meta_df.join(indicators_df, how="left"): the row of index label k
JoinRow(meta_table, ind, k) ==
    [origin |-> k,
     cells  |-> FromDictRow(meta_table[k], MetaColumns(meta_table)) @@
                (IF k \in Keys(ind)
                 THEN FromDictRow(Get(ind, k).ind, IndicatorColumns(ind))
                 ELSE [c \in IndicatorColumns(ind) |-> Unset])]

LeftJoin(meta_table, ind) ==
    LET idx == JoinIndex(meta_table, ind)
    IN  [i \in 1..Len(idx) |-> JoinRow(meta_table, ind, idx[i])]

\* order of two cells of one column: -1, 0, 1; NaN sorts last
CellCmp(a, b) ==
    IF a = Unset /\ b = Unset THEN 0
    ELSE IF a = Unset THEN 1
    ELSE IF b = Unset THEN -1
    ELSE IF a[1] < b[1] THEN -1
    ELSE IF a[1] > b[1] THEN 1
    ELSE 0

\* r sorts strictly before s by ["ticker", "year", "quarter"]
RowLess(r, s) ==
    LET t == CellCmp(r.cells["ticker"], s.cells["ticker"])
        y == CellCmp(r.cells["year"], s.cells["year"])
        q == CellCmp(r.cells["quarter"], s.cells["quarter"])
    IN  t = -1 \/ (t = 0 /\ (y = -1 \/ (y = 0 /\ q = -1)))

\* r inserted before the first row that sorts strictly after it
RECURSIVE InsertRow(_, _)
InsertRow(sorted, r) ==
    IF sorted = <<>> THEN <<r>>
    ELSE IF RowLess(r, Head(sorted)) THEN <<r>> \o sorted
    ELSE <<Head(sorted)>> \o InsertRow(Tail(sorted), r)

\* panel.sort_values(["ticker", "year", "quarter"]): stable, ascending
RECURSIVE SortValues(_)
SortValues(rows) ==
    IF rows = <<>> THEN <<>>
    ELSE InsertRow(SortValues(SubSeq(rows, 1, Len(rows) - 1)), rows[Len(rows)])

\* a column that holds a NaN is a float column
IsFloatColumn(rows, c) == \E i \in 1..Len(rows) : rows[i].cells[c] = Unset

\* .astype(str) of one cell of an integer (or, with NaN, float) column
AsTypeStr(cell, is_float) ==
    IF cell = Unset THEN "nan"
    ELSE IF is_float THEN ToString(cell[1]) \o ".0"
    ELSE ToString(cell[1])

\* panel["quarter_id"] = panel["year"].astype(str) + panel["quarter"].astype(str)
WithQuarterId(rows) ==
    [i \in 1..Len(rows) |->
        [rows[i] EXCEPT !.cells = @ @@
            ("quarter_id" :>
                Cell(AsTypeStr(rows[i].cells["year"], IsFloatColumn(rows, "year")) \o
                     AsTypeStr(rows[i].cells["quarter"], IsFloatColumn(rows, "quarter"))))]]

\* PanelBuilder(meta_table).build(ind)
Build(meta_table, ind) ==
    IF MissingCols(meta_table) # {}
    THEN [status |-> "KeyError", rows |-> <<>>]
    ELSE [status |-> "ok",
          rows   |-> WithQuarterId(SortValues(LeftJoin(meta_table, ind)))]

----------------------------------------------------------------------------
(* Inputs *)

\* call metadata of the pipeline run: call "B" has no record, call "D" no passage
PipelineMetadata ==
    ("A" :> (Meta(300, 180, 120) @@ Listing(2, 2023, 2))) @@
    ("C" :> (Meta(2, 0, 2) @@ Listing(1, 2023, 1))) @@
    ("D" :> (Meta(5, 3, 2) @@ Listing(1, 2024, 1)))

MetaRecords ==
    {Meta(300, 180, 120), Meta(7, 4, 3), Meta(6, 2, 2), Meta(4, 4, 0), Meta(0, 0, 0)}

\* metadata tables for a single call "A": absent, or one of MetaRecords
MetadataTables == {<<>>} \cup {("A" :> m) : m \in MetaRecords}

HitSpace ==
    [faiss_id : {0}, similarity : {-10, 55, 60}, sentence_count : {0, 3, 4},
     section : Sections, call_id : {"A"}]

SeqsUpTo(S, n) == UNION {[1..k -> S] : k \in 0..n}

\* rec restricted to the fields in F
Restrict(rec, F) == [c \in F |-> rec[c]]

\* metadata records of one call: any of ticker, year, quarter may be absent
PanelRecords(listing) ==
    {Meta(100, 60, 40) @@ Restrict(listing, F) : F \in SUBSET RequiredCols}

\* metadata tables over the calls "A" and "C", the empty table included
PanelTables ==
    {<<>>}
    \cup {("A" :> a) : a \in PanelRecords(Listing(2, 2023, 2))}
    \cup {("C" :> c) : c \in PanelRecords(Listing(1, 2023, 1))}
    \cup {("A" :> a) @@ ("C" :> c) : a \in PanelRecords(Listing(2, 2023, 2)),
                                       c \in PanelRecords(Listing(1, 2023, 1))}

\* an indicator record of a call with one hit
OneHitIndicators ==
    IndicatorsWithMeta(Meta(100, 60, 40),
        <<[faiss_id |-> 0, similarity |-> 60, sentence_count |-> 4,
           section |-> "management", call_id |-> "A"]>>)

\* indicator dictionaries over the calls "A" and "B"
PanelIndicators ==
    LET recs == {EmptyIndicators, OneHitIndicators}
        E(k, r) == [call_id |-> k, ind |-> r]
    IN  {<<>>}
        \cup {<<E(k, r)>> : k \in {"A", "B"}, r \in recs}
        \cup {<<E("A", r), E("B", q)>> : r \in recs, q \in recs}
        \cup {<<E("B", r), E("A", q)>> : r \in recs, q \in recs}

\* collect_candidates_stratified has not been called
CollectIdle ==
    /\ raw = <<>>
    /\ samples_per_bin = 0
    /\ deduped = <<>>
    /\ final = <<>>
    /\ cc_done = FALSE

\* llm_label_candidates has not been called
LabelIdle ==
    /\ l_candidates = <<>>
    /\ l_answers = <<>>
    /\ labeled = <<>>
    /\ l_done = FALSE

\* sweep_thresholds and pick_best_threshold have not been called
SweepIdle ==
    /\ scores = <<>>
    /\ labels = <<>>
    /\ sweep_range = [start |-> 0, end |-> 0, step |-> 1]
    /\ sweep_results = <<>>
    /\ sweep_done = FALSE
    /\ strategy = "f1"
    /\ best = <<>>
    /\ pick_status = "none"

\* interactive_review has not been called
ReviewIdle ==
    /\ rv_sample = <<>>
    /\ rv_keys = <<>>
    /\ rv_annotated = <<>>
    /\ rv_pc = "idle"

\* the calibration script has not been run and its files do not exist
RunIdle ==
    /\ args = [mode |-> "llm", export |-> FALSE, import |-> FALSE]
    /\ run_pc = "idle"
    /\ run_error = "none"
    /\ runs = 0
    /\ config_file = <<>>
    /\ annotation_file = <<>>
    /\ queries = <<>>
    /\ run_candidates = <<>>
    /\ run_labeled = <<>>
    /\ confirm = <<>>

\* search_by_embedding has not been called
SearchIdle ==
    /\ se_indexes = <<>>
    /\ se_top_k = 0
    /\ se_pos = 0
    /\ all_results = <<>>
    /\ se_out = <<>>
    /\ se_pc = "idle"

LateIdle == ReviewIdle /\ RunIdle /\ SearchIdle

\* no calibration has been started
CalibIdle == CollectIdle /\ LabelIdle /\ SweepIdle

\* nothing has been built from the indicators yet
MoreIdle ==
    /\ ind_streamed = <<>>
    /\ ind_batches = <<>>
    /\ pb_indicators = <<>>
    /\ panel = <<>>
    /\ pb_status = "none"
    /\ CalibIdle
    /\ LateIdle

----------------------------------------------------------------------------
(* Specification of ConceptRetriever's three access modes *)

Init ==
    /\ \E sim \in [Patterns -> [FaissIds -> Scores]] :
          results = [p \in Patterns |-> SearchByText(sim[p], TopK)]
    /\ threshold \in Thresholds
    /\ hits_by_call = <<>>
    /\ batch_done = FALSE
    /\ access = "none"
    /\ batch_size = 0
    /\ g_pc = "idle"
    /\ g_pat = 0
    /\ g_hits = <<>>
    /\ g_pos = 0
    /\ streamed = <<>>
    /\ batch = <<>>
    /\ batches = <<>>
    /\ b_done = FALSE
    /\ call_metadata = PipelineMetadata
    /\ indicators = <<>>
    /\ ind_done = FALSE
    /\ agg_hits = <<>>
    /\ agg_out = EmptyIndicators
    /\ agg_done = FALSE
    /\ MoreIdle

\* retrieve_hits()
RetrieveHits ==
    /\ ~batch_done
    /\ hits_by_call' = RetrieveLoop(<<>>, 1)
    /\ batch_done' = TRUE
    /\ UNCHANGED <<results, threshold, access, batch_size, g_pc, g_pat, g_hits, g_pos,
                   streamed, batch, batches, b_done, call_metadata, indicators,
                   ind_done, aggVars, moreVars>>

\* for ... in retrieve_hits_streaming(): the caller consumes the generator itself
StartStreaming ==
    /\ g_pc = "idle"
    /\ access' = "streaming"
    /\ g_pc' = "scan"
    /\ UNCHANGED <<results, threshold, hits_by_call, batch_done, batch_size, g_pat, g_hits,
                   g_pos, streamed, batch, batches, b_done, call_metadata, indicators,
                   ind_done, aggVars, moreVars>>

\* retrieve_hits_batched(batch_size=bs)
StartBatched(bs) ==
    /\ g_pc = "idle"
    /\ access' = "batched"
    /\ batch_size' = bs
    /\ g_pc' = "scan"
    /\ UNCHANGED <<results, threshold, hits_by_call, batch_done, g_pat, g_hits,
                   g_pos, streamed, batch, batches, b_done, call_metadata, indicators,
                   ind_done, aggVars, moreVars>>

\* retrieve_hits_streaming: one iteration of the loop over the patterns
ScanPattern ==
    /\ g_pc = "scan"
    /\ g_pat < NumPatterns
    /\ g_hits' = ProcessItemsStreaming(g_hits, results[g_pat + 1])
    /\ g_pat' = g_pat + 1
    /\ g_pc' = IF ScanFinished(g_pat + 1) THEN "yield" ELSE "scan"
    /\ UNCHANGED <<results, threshold, hits_by_call, batch_done, access, batch_size,
                   g_pos, streamed, batch, batches, b_done, call_metadata, indicators,
                   ind_done, aggVars, moreVars>>

\* retrieve_hits_streaming: yield call_id, hits (to the caller)
YieldPair ==
    /\ access = "streaming"
    /\ g_pc = "yield"
    /\ g_pos < Len(g_hits)
    /\ streamed' = Append(streamed, g_hits[g_pos + 1])
    /\ g_pos' = g_pos + 1
    /\ UNCHANGED <<results, threshold, hits_by_call, batch_done, access, batch_size, g_pc,
                   g_pat, g_hits, batch, batches, b_done, call_metadata, indicators,
                   ind_done, aggVars, moreVars>>

\* retrieve_hits_streaming returns (to the caller)
StreamingReturn ==
    /\ access = "streaming"
    /\ g_pc = "yield"
    /\ g_pos = Len(g_hits)
    /\ g_pc' = "done"
    /\ UNCHANGED <<results, threshold, hits_by_call, batch_done, access, batch_size,
                   g_pat, g_hits, g_pos, streamed, batch, batches, b_done,
                   call_metadata, indicators, ind_done, aggVars, moreVars>>

\* batch[call_id] = hits
DictSet(d, k, v) ==
    IF k \in Keys(d)
    THEN [d EXCEPT ![IndexOfKey(d, k)].hits = v]
    ELSE Append(d, [call_id |-> k, hits |-> v])

\* retrieve_hits_batched: one iteration of the loop over the generator's pairs
BatchedPull ==
    /\ access = "batched"
    /\ g_pc = "yield"
    /\ g_pos < Len(g_hits)
    /\ LET pair == g_hits[g_pos + 1]
           nb   == DictSet(batch, pair.call_id, pair.hits)
       IN  /\ streamed' = Append(streamed, pair)
           /\ IF BatchFull(nb, batch_size)
              THEN batches' = Append(batches, nb) /\ batch' = <<>>
              ELSE batches' = batches /\ batch' = nb
    /\ g_pos' = g_pos + 1
    /\ UNCHANGED <<results, threshold, hits_by_call, batch_done, access, batch_size, g_pc,
                   g_pat, g_hits, b_done, call_metadata, indicators, ind_done, aggVars, moreVars>>

\* variant: the trailing partial batch is dropped
FlushBatch_Never(bs, b) == bs

\* what retrieve_hits_batched has yielded once the trailing "if batch: yield batch" ran
FlushBatch(bs, b) == IF b # <<>> THEN Append(bs, b) ELSE bs

\* retrieve_hits_batched: the generator is exhausted; flush and return
BatchedReturn ==
    /\ access = "batched"
    /\ g_pc = "yield"
    /\ g_pos = Len(g_hits)
    /\ batches' = FlushBatch(batches, batch)
    /\ g_pc' = "done"
    /\ b_done' = TRUE
    /\ UNCHANGED <<results, threshold, hits_by_call, batch_done, access, batch_size,
                   g_pat, g_hits, g_pos, streamed, batch, call_metadata, indicators,
                   ind_done, aggVars, moreVars>>

\* IndicatorBuilder(call_metadata).build_indicators(hits_by_call)
BuildIndicators ==
    /\ batch_done
    /\ ~ind_done
    /\ indicators' = BuildIndicatorsDict(call_metadata, hits_by_call)
    /\ ind_done' = TRUE
    /\ UNCHANGED <<retrVars, call_metadata, aggVars, moreVars>>

Next ==
    \/ RetrieveHits
    \/ StartStreaming
    \/ \E bs \in 1..MaxBatchSize : StartBatched(bs)
    \/ ScanPattern
    \/ YieldPair
    \/ StreamingReturn
    \/ BatchedPull
    \/ BatchedReturn

Spec == Init /\ [][Next]_vars

----------------------------------------------------------------------------
(* Specification of the topic pipeline: retrieve_hits, then build_indicators *)

\* PanelBuilder(call_metadata).build(indicators)
BuildPanel ==
    /\ ind_done
    /\ pb_status = "none"
    /\ pb_indicators' = indicators
    /\ panel' = Build(call_metadata, indicators).rows
    /\ pb_status' = Build(call_metadata, indicators).status
    /\ UNCHANGED <<retrVars, call_metadata, indicators, ind_done, aggVars, ibVars, ccVars, llVars, swVars, lateVars>>

NextPipe ==
    \/ RetrieveHits
    \/ BuildIndicators
    \/ BuildPanel

SpecPipe == Init /\ [][NextPipe]_vars

----------------------------------------------------------------------------
(* Specification of IndicatorBuilder's three APIs on one retrieval:         *)
(* build_indicators(retrieve_hits()), then                                  *)
(* build_indicators_streaming(retrieve_hits_streaming()) or                 *)
(* build_indicators_batched(retrieve_hits_batched(bs))                      *)

\* variant: the streaming API yields the default record for every call
StreamItem_Empty(meta_table, pair) ==
    [call_id |-> pair.call_id, ind |-> EmptyIndicators]

\* build_indicators_streaming: what is yielded for one (call_id, hits) pair
StreamItem(meta_table, pair) ==
    [call_id |-> pair.call_id,
     ind     |-> ComputeCallIndicators(meta_table, pair.call_id, pair.hits)]

\* indicators_batch[call_id] = v
DictSetInd(d, k, v) ==
    IF k \in Keys(d)
    THEN [d EXCEPT ![IndexOfKey(d, k)].ind = v]
    ELSE Append(d, [call_id |-> k, ind |-> v])

\* build_indicators_batched: the loop over hits_batch.items(), from entry i on
RECURSIVE IndicatorsBatchLoop(_, _, _, _)
IndicatorsBatchLoop(meta_table, indicators_batch, hits_batch, i) ==
    IF i > Len(hits_batch) THEN indicators_batch
    ELSE IndicatorsBatchLoop(
             meta_table,
             DictSetInd(indicators_batch, hits_batch[i].call_id,
                        ComputeCallIndicators(meta_table, hits_batch[i].call_id,
                                              hits_batch[i].hits)),
             hits_batch, i + 1)

\* build_indicators_batched: the dictionary yielded for one hits_batch
IndicatorsBatch(meta_table, hits_batch) ==
    IndicatorsBatchLoop(meta_table, <<>>, hits_batch, 1)

\* for call_id, ind in build_indicators_streaming(retrieve_hits_streaming())
StartIndStreaming ==
    /\ ind_done
    /\ g_pc = "idle"
    /\ access' = "ind_streaming"
    /\ g_pc' = "scan"
    /\ UNCHANGED <<results, threshold, hits_by_call, batch_done, batch_size, g_pat, g_hits,
                   g_pos, streamed, batch, batches, b_done, call_metadata, indicators,
                   ind_done, aggVars, moreVars>>

\* build_indicators_batched(retrieve_hits_batched(batch_size=bs))
StartIndBatched(bs) ==
    /\ ind_done
    /\ g_pc = "idle"
    /\ access' = "ind_batched"
    /\ batch_size' = bs
    /\ g_pc' = "scan"
    /\ UNCHANGED <<results, threshold, hits_by_call, batch_done, g_pat, g_hits,
                   g_pos, streamed, batch, batches, b_done, call_metadata, indicators,
                   ind_done, aggVars, moreVars>>

\* build_indicators_streaming: one iteration of the loop over hits_stream
IndStreamPull ==
    /\ access = "ind_streaming"
    /\ g_pc = "yield"
    /\ g_pos < Len(g_hits)
    /\ streamed' = Append(streamed, g_hits[g_pos + 1])
    /\ ind_streamed' = Append(ind_streamed, StreamItem(call_metadata, g_hits[g_pos + 1]))
    /\ g_pos' = g_pos + 1
    /\ UNCHANGED <<results, threshold, hits_by_call, batch_done, access, batch_size, g_pc,
                   g_pat, g_hits, batch, batches, b_done, call_metadata, indicators,
                   ind_done, aggVars, ind_batches, pbVars, ccVars, llVars, swVars, lateVars>>

\* hits_stream is exhausted: build_indicators_streaming returns
IndStreamReturn ==
    /\ access = "ind_streaming"
    /\ g_pc = "yield"
    /\ g_pos = Len(g_hits)
    /\ g_pc' = "done"
    /\ UNCHANGED <<results, threshold, hits_by_call, batch_done, access, batch_size,
                   g_pat, g_hits, g_pos, streamed, batch, batches, b_done,
                   call_metadata, indicators, ind_done, aggVars, moreVars>>

\* retrieve_hits_batched takes one pair; a full batch goes through
\* build_indicators_batched at once
IndBatchedPull ==
    /\ access = "ind_batched"
    /\ g_pc = "yield"
    /\ g_pos < Len(g_hits)
    /\ LET pair == g_hits[g_pos + 1]
           nb   == DictSet(batch, pair.call_id, pair.hits)
       IN  /\ streamed' = Append(streamed, pair)
           /\ IF BatchFull(nb, batch_size)
              THEN /\ batches' = Append(batches, nb)
                   /\ batch' = <<>>
                   /\ ind_batches' = Append(ind_batches, IndicatorsBatch(call_metadata, nb))
              ELSE /\ batches' = batches
                   /\ batch' = nb
                   /\ ind_batches' = ind_batches
    /\ g_pos' = g_pos + 1
    /\ UNCHANGED <<results, threshold, hits_by_call, batch_done, access, batch_size, g_pc,
                   g_pat, g_hits, b_done, call_metadata, indicators, ind_done, aggVars,
                   ind_streamed, pbVars, ccVars, llVars, swVars, lateVars>>

\* hits_batches is exhausted after the trailing partial batch, if any
IndBatchedReturn ==
    /\ access = "ind_batched"
    /\ g_pc = "yield"
    /\ g_pos = Len(g_hits)
    /\ batches' = FlushBatch(batches, batch)
    /\ ind_batches' = IF FlushBatch(batches, batch) # batches
                      THEN Append(ind_batches, IndicatorsBatch(call_metadata, batch))
                      ELSE ind_batches
    /\ g_pc' = "done"
    /\ b_done' = TRUE
    /\ UNCHANGED <<results, threshold, hits_by_call, batch_done, access, batch_size,
                   g_pat, g_hits, g_pos, streamed, batch, call_metadata, indicators,
                   ind_done, aggVars, ind_streamed, pbVars, ccVars, llVars, swVars, lateVars>>

NextInd ==
    \/ RetrieveHits
    \/ BuildIndicators
    \/ StartIndStreaming
    \/ \E bs \in 1..MaxBatchSize : StartIndBatched(bs)
    \/ ScanPattern
    \/ IndStreamPull
    \/ IndStreamReturn
    \/ IndBatchedPull
    \/ IndBatchedReturn

SpecInd == Init /\ [][NextInd]_vars

----------------------------------------------------------------------------
(* Specification of PanelBuilder alone: one build call on arbitrary         *)
(* metadata and indicators                                                  *)

InitPanel ==
    /\ results = [p \in Patterns |-> <<>>]
    /\ threshold = 55
    /\ hits_by_call = <<>>
    /\ batch_done = FALSE
    /\ access = "none"
    /\ batch_size = 0
    /\ g_pc = "idle"
    /\ g_pat = 0
    /\ g_hits = <<>>
    /\ g_pos = 0
    /\ streamed = <<>>
    /\ batch = <<>>
    /\ batches = <<>>
    /\ b_done = FALSE
    /\ call_metadata \in PanelTables
    /\ indicators = <<>>
    /\ ind_done = FALSE
    /\ agg_hits = <<>>
    /\ agg_out = EmptyIndicators
    /\ agg_done = FALSE
    /\ ind_streamed = <<>>
    /\ ind_batches = <<>>
    /\ pb_indicators \in PanelIndicators
    /\ panel = <<>>
    /\ pb_status = "none"
    /\ CalibIdle
    /\ LateIdle

\* PanelBuilder(call_metadata).build(pb_indicators)
PanelBuild ==
    /\ pb_status = "none"
    /\ panel' = Build(call_metadata, pb_indicators).rows
    /\ pb_status' = Build(call_metadata, pb_indicators).status
    /\ UNCHANGED <<retrVars, call_metadata, indicators, ind_done, aggVars, ibVars,
                   pb_indicators, ccVars, llVars, swVars, lateVars>>

NextPanel == PanelBuild

SpecPanel == InitPanel /\ [][NextPanel]_vars

----------------------------------------------------------------------------
(* Candidate collection for threshold calibration *)
(* A candidate is [call_id, faiss_id, similarity, pattern]; pattern numbers *)
(* the retrieval (query and rank) that produced it.  List positions are     *)
(* 1-based.                                                                 *)

\* no retrieval, aggregation or panel is under way
PipeIdle ==
    /\ results = [p \in Patterns |-> <<>>]
    /\ threshold = 55
    /\ hits_by_call = <<>>
    /\ batch_done = FALSE
    /\ access = "none"
    /\ batch_size = 0
    /\ g_pc = "idle"
    /\ g_pat = 0
    /\ g_hits = <<>>
    /\ g_pos = 0
    /\ streamed = <<>>
    /\ batch = <<>>
    /\ batches = <<>>
    /\ b_done = FALSE
    /\ call_metadata = <<>>
    /\ indicators = <<>>
    /\ ind_done = FALSE
    /\ agg_hits = <<>>
    /\ agg_out = EmptyIndicators
    /\ agg_done = FALSE
    /\ ind_streamed = <<>>
    /\ ind_batches = <<>>
    /\ pb_indicators = <<>>
    /\ panel = <<>>
    /\ pb_status = "none"

MaxRaw == 3

MaxSamplesPerBin == 2

\* bins (low, high) in hundredths, as the default: descending and adjacent
Bins == << <<50, 60>>, <<40, 50>> >>

\* key = (c["call_id"], c["faiss_id"])
CandKey(c) == <<c.call_id, c.faiss_id>>

\* position of key in the dict dedup, 0 if absent
DedupIndex(dedup, key) ==
    IF \E j \in 1..Len(dedup) : dedup[j].key = key
    THEN CHOOSE j \in 1..Len(dedup) : dedup[j].key = key
    ELSE 0

\* variant: a later candidate of equal similarity replaces the stored one
Replaces_OrEqual(c, stored) == c.similarity >= stored.similarity

\* if c["similarity"] > dedup[key]["similarity"]
Replaces(c, stored) == c.similarity > stored.similarity

\* deduplicate_candidates: the loop over raw_candidates, from item i on
RECURSIVE DedupLoop(_, _, _)
DedupLoop(dedup, raw_candidates, i) ==
    IF i > Len(raw_candidates) THEN dedup
    ELSE LET c   == raw_candidates[i]
             key == CandKey(c)
             j   == DedupIndex(dedup, key)
         IN  IF j = 0
             THEN DedupLoop(Append(dedup, [key |-> key, c |-> c]), raw_candidates, i + 1)
             ELSE IF Replaces(c, dedup[j].c)
                  THEN DedupLoop([dedup EXCEPT ![j].c = c], raw_candidates, i + 1)
                  ELSE DedupLoop(dedup, raw_candidates, i + 1)

\* deduplicate_candidates(raw_candidates): list(dedup.values())
DeduplicateCandidates(raw_candidates) ==
    LET dedup == DedupLoop(<<>>, raw_candidates, 1)
    IN  [j \in 1..Len(dedup) |-> dedup[j].c]

\* c inserted behind every candidate of greater or equal similarity
RECURSIVE InsertBySimilarity(_, _)
InsertBySimilarity(sorted, c) ==
    IF sorted = <<>> THEN <<c>>
    ELSE IF Head(sorted).similarity < c.similarity THEN <<c>> \o sorted
    ELSE <<Head(sorted)>> \o InsertBySimilarity(Tail(sorted), c)

\* sorted(raw, key=lambda x: x["similarity"], reverse=True): stable
RECURSIVE SortedBySimilarity(_)
SortedBySimilarity(cands) ==
    IF cands = <<>> THEN <<>>
    ELSE InsertBySimilarity(SortedBySimilarity(SubSeq(cands, 1, Len(cands) - 1)),
                            cands[Len(cands)])

\* the first bin with low <= sim < high, 0 if there is none
BinOf(sim) ==
    IF \E i \in 1..Len(Bins) : Bins[i][1] <= sim /\ sim < Bins[i][2]
    THEN CHOOSE i \in 1..Len(Bins) :
             /\ Bins[i][1] <= sim /\ sim < Bins[i][2]
             /\ \A h \in 1..(i - 1) : ~(Bins[h][1] <= sim /\ sim < Bins[h][2])
    ELSE 0

\* binned[i] after the allocation loop
Binned(cands) ==
    [i \in 1..Len(Bins) |-> SelectSeq(cands, LAMBDA c : BinOf(c.similarity) = i)]

\* variant: the whole bin is taken
SampleSize_WholeBin(spb, m) == m

\* n = min(samples_per_bin, len(candidates))
SampleSize(spb, m) == IF spb <= m THEN spb ELSE m

\* rng.choice(m, size=n, replace=False): n pairwise different positions
ChoiceOutcomes(m, n) ==
    {idx \in [1..n -> 1..m] : \A a, b \in 1..n : idx[a] = idx[b] => a = b}

\* [candidates[j] for j in idx]
Picked(candidates, idx) == [k \in 1..Len(idx) |-> candidates[idx[k]]]

\* the lists the sampling loop can extend final by, from bin i on
RECURSIVE SampleOutcomes(_, _, _)
SampleOutcomes(binned, spb, i) ==
    IF i > Len(binned) THEN {<<>>}
    ELSE {Picked(binned[i], idx) \o rest :
              idx  \in ChoiceOutcomes(Len(binned[i]), SampleSize(spb, Len(binned[i]))),
              rest \in SampleOutcomes(binned, spb, i + 1)}

\* candidates of the raw retrieval
RawSpace ==
    {[call_id |-> k[1], faiss_id |-> k[2], similarity |-> sim] :
        k \in {<<"A", 0>>, <<"A", 1>>, <<"B", 0>>}, sim \in {35, 40, 50, 60}}

\* raw lists: item i carries pattern i
RawLists ==
    {[i \in 1..Len(l) |-> l[i] @@ [pattern |-> i]] : l \in SeqsUpTo(RawSpace, MaxRaw)}

InitCollect ==
    /\ PipeIdle
    /\ LateIdle
    /\ raw \in RawLists
    /\ samples_per_bin \in 1..MaxSamplesPerBin
    /\ deduped = <<>>
    /\ final = <<>>
    /\ cc_done = FALSE
    /\ LabelIdle
    /\ SweepIdle

\* collect_candidates_stratified, from the deduplication of raw on
CollectStratified ==
    /\ ~cc_done
    /\ LET dd     == DeduplicateCandidates(raw)
           binned == Binned(SortedBySimilarity(dd))
       IN  /\ deduped' = dd
           /\ final' \in SampleOutcomes(binned, samples_per_bin, 1)
    /\ cc_done' = TRUE
    /\ UNCHANGED <<retrVars, call_metadata, indicators, ind_done, aggVars, ibVars, pbVars,
                   raw, samples_per_bin, llVars, swVars, lateVars>>

NextCollect == CollectStratified

SpecCollect == InitCollect /\ [][NextCollect]_vars

----------------------------------------------------------------------------
(* LLM labeling *)
(* A response text is the sequence of its characters.                       *)

MaxLabeled == 2

Whitespace == {" ", "\n", "\t"}

RECURSIVE LStrip(_)
LStrip(text) ==
    IF text # <<>> /\ Head(text) \in Whitespace THEN LStrip(Tail(text)) ELSE text

RECURSIVE RStrip(_)
RStrip(text) ==
    IF text # <<>> /\ text[Len(text)] \in Whitespace
    THEN RStrip(SubSeq(text, 1, Len(text) - 1))
    ELSE text

\* str.strip()
Strip(text) == RStrip(LStrip(text))

UpperToLower ==
    ("Y" :> "y") @@ ("E" :> "e") @@ ("S" :> "s") @@ ("N" :> "n") @@ ("O" :> "o")
        @@ ("Q" :> "q")

\* str.lower()
Lower(text) ==
    [i \in 1..Len(text) |->
        IF text[i] \in DOMAIN UpperToLower THEN UpperToLower[text[i]] ELSE text[i]]

\* variant: the answer only has to start with "yes"
IsRelevant_StartsWith(text) ==
    LET answer == Lower(Strip(text))
    IN  IF Len(answer) >= 3 /\ SubSeq(answer, 1, 3) = <<"y", "e", "s">> THEN 1 ELSE 0

\* answer = response.content[0].text.strip().lower(); 1 if answer == "yes" else 0
IsRelevant(text) ==
    LET answer == Lower(Strip(text))
    IN  IF answer = <<"y", "e", "s">> THEN 1 ELSE 0

\* {**c, "label": is_relevant}
LabeledItem(c, is_relevant) == ("label" :> is_relevant) @@ c

\* response texts of the oracle
Responses ==
    {<<"y", "e", "s">>, <<"Y", "e", "s">>, <<" ", "Y", "E", "S", "\n">>,
     <<"n", "o">>, <<"N", "o">>, <<>>, <<" ">>,
     <<"y", "e", "s", ".">>, <<"y", " ", "e", "s">>, <<"y", "e", "s", " ", "n", "o">>}

LabelCandidates ==
    {[text |-> "p0", similarity |-> 50, call_id |-> "A", faiss_id |-> 0],
     [text |-> "p1", similarity |-> 40, call_id |-> "B", faiss_id |-> 1]}

InitLabel ==
    /\ PipeIdle
    /\ LateIdle
    /\ CollectIdle
    /\ l_candidates \in SeqsUpTo(LabelCandidates, MaxLabeled)
    /\ l_answers = <<>>
    /\ labeled = <<>>
    /\ l_done = FALSE
    /\ SweepIdle

\* llm_label_candidates: one iteration of the loop over candidates
LabelOne ==
    /\ ~l_done
    /\ Len(labeled) < Len(l_candidates)
    /\ \E text \in Responses :
           /\ l_answers' = Append(l_answers, text)
           /\ labeled' = Append(labeled,
                  LabeledItem(l_candidates[Len(labeled) + 1], IsRelevant(text)))
    /\ UNCHANGED <<retrVars, call_metadata, indicators, ind_done, aggVars, ibVars, pbVars,
                   ccVars, l_candidates, l_done, swVars, lateVars>>

\* llm_label_candidates: return labeled
LabelReturn ==
    /\ ~l_done
    /\ Len(labeled) = Len(l_candidates)
    /\ l_done' = TRUE
    /\ UNCHANGED <<retrVars, call_metadata, indicators, ind_done, aggVars, ibVars, pbVars,
                   ccVars, l_candidates, l_answers, labeled, swVars, lateVars>>

NextLabel == LabelOne \/ LabelReturn

SpecLabel == InitLabel /\ [][NextLabel]_vars

----------------------------------------------------------------------------
(* Threshold calibration *)
(* Scores and thresholds are integers in hundredths.                        *)

MaxSamples == 3

\* most items handed to interactive_review
MaxReview == 2

\* most runs of the calibration script
MaxRuns == 2

\* most indexes a SemanticRetriever has loaded
MaxIndexes == 2

\* largest top_k of search_by_embedding
MaxTopK == 2

RatAdd(a, b) == Rat(a.num * b.den + b.num * a.den, a.den * b.den)

RatSub(a, b) == Rat(a.num * b.den - b.num * a.den, a.den * b.den)

\* a / b for b > 0
RatDiv(a, b) == Rat(a.num * b.den, a.den * b.num)

RatLess(a, b) == a.num * b.den < b.num * a.den

\* greatest common divisor of two naturals
RECURSIVE Gcd(_, _)
Gcd(a, b) == IF b = 0 THEN a ELSE Gcd(b, a % b)

\* the same non-negative number in lowest terms (one float has one value)
Reduced(r) == Rat(r.num \div Gcd(r.num, r.den), r.den \div Gcd(r.num, r.den))

\* variant: a score equal to the threshold is predicted negative
Predict_Strict(s, tau) == IF s > tau THEN 1 ELSE 0

\* 1 if s >= threshold else 0
Predict(s, tau) == IF s >= tau THEN 1 ELSE 0

\* sum(1 for p, y in zip(predictions, labels) if p == pv and y == yv)
CountPairs(predictions, labs, pv, yv) ==
    Cardinality({i \in 1..Len(predictions) :
                    i <= Len(labs) /\ predictions[i] = pv /\ labs[i] = yv})

\* variant: true positives over all samples
Precision_OverAll(TP, FP, FN, TN) ==
    IF TP + FP > 0 THEN Rat(TP, TP + FP + FN + TN) ELSE RatZero

\* TP / (TP + FP) if (TP + FP) > 0 else 0.0
Precision(TP, FP, FN, TN) == IF TP + FP > 0 THEN Rat(TP, TP + FP) ELSE RatZero

\* variant: recall over the predicted positives
Recall_OverPredicted(TP, FP, FN, TN) == IF TP + FP > 0 THEN Rat(TP, TP + FP) ELSE RatZero

\* TP / (TP + FN) if (TP + FN) > 0 else 0.0
Recall(TP, FP, FN, TN) == IF TP + FN > 0 THEN Rat(TP, TP + FN) ELSE RatZero

\* FP / (FP + TN) if (FP + TN) > 0 else 0.0
Fpr(TP, FP, FN, TN) == IF FP + TN > 0 THEN Rat(FP, FP + TN) ELSE RatZero

\* 2 * precision * recall / (precision + recall) if (precision + recall) > 0 else 0.0
F1(precision, recall) ==
    IF RatLess(RatZero, RatAdd(precision, recall))
    THEN Reduced(RatDiv(RatMul(Rat(2, 1), RatMul(precision, recall)),
                        RatAdd(precision, recall)))
    ELSE RatZero

\* compute_metrics_for_threshold(scs, labs, tau)
ComputeMetricsForThreshold(scs, labs, tau) ==
    LET predictions == [i \in 1..Len(scs) |-> Predict(scs[i], tau)]
        TP == CountPairs(predictions, labs, 1, 1)
        FP == CountPairs(predictions, labs, 1, 0)
        FN == CountPairs(predictions, labs, 0, 1)
        TN == CountPairs(predictions, labs, 0, 0)
        precision == Precision(TP, FP, FN, TN)
        recall    == Recall(TP, FP, FN, TN)
    IN  [threshold |-> tau, TP |-> TP, FP |-> FP, FN |-> FN, TN |-> TN,
         precision |-> precision, recall |-> recall,
         fpr |-> Fpr(TP, FP, FN, TN), f1 |-> F1(precision, recall)]

\* np.arange(start, end + 1e-9, step) for step > 0
Arange(start, end, step) ==
    IF end < start THEN <<>>
    ELSE [k \in 1..((end - start) \div step + 1) |-> start + (k - 1) * step]

\* sweep_thresholds(scs, labs, start, end, step)
SweepThresholds(scs, labs, start, end, step) ==
    LET thresholds == Arange(start, end, step)
    IN  [k \in 1..Len(thresholds) |-> ComputeMetricsForThreshold(scs, labs, thresholds[k])]

\* variant: a later result of equal key replaces the best so far
Beats_OrEqual(key, best_key) == ~RatLess(key, best_key)

\* max(): a later item replaces the best so far only if its key is greater
Beats(key, best_key) == RatLess(best_key, key)

\* max(results, key=...): position of the result max returns, scanning from i
RECURSIVE MaxLoop(_, _, _)
MaxLoop(keys, best_i, i) ==
    IF i > Len(keys) THEN best_i
    ELSE IF Beats(keys[i], keys[best_i]) THEN MaxLoop(keys, i, i + 1)
    ELSE MaxLoop(keys, best_i, i + 1)

\* variant: the f1 strategy ranks by recall
KeyF1_Recall(r) == r.recall

\* lambda r: r["f1"]
KeyF1(r) == r.f1

\* lambda r: r["recall"] - r["fpr"]
KeyYouden(r) == RatSub(r.recall, r.fpr)

\* pick_best_threshold(res, strat); max() of an empty list raises ValueError
PickBestThreshold(res, strat) ==
    IF strat \notin {"f1", "youden"} \/ res = <<>>
    THEN [status |-> "ValueError", best |-> <<>>]
    ELSE LET keys == [i \in 1..Len(res) |->
                         IF strat = "f1" THEN KeyF1(res[i]) ELSE KeyYouden(res[i])]
         IN  [status |-> "ok", best |-> res[MaxLoop(keys, 1, 2)]]

\* labeled samples: (similarity, label) pairs
SampleSpace == {40, 45, 50} \X {0, 1}

\* sweep arguments: two ranges of three thresholds and an empty range
SweepRanges ==
    {[start |-> 40, end |-> 50, step |-> 5],
     [start |-> 45, end |-> 55, step |-> 5],
     [start |-> 50, end |-> 40, step |-> 5]}

Strategies == {"f1", "youden", "accuracy"}

InitSweep ==
    /\ PipeIdle
    /\ LateIdle
    /\ CollectIdle
    /\ LabelIdle
    /\ \E samples \in SeqsUpTo(SampleSpace, MaxSamples) :
           /\ scores = [i \in 1..Len(samples) |-> samples[i][1]]
           /\ labels = [i \in 1..Len(samples) |-> samples[i][2]]
    /\ sweep_range \in SweepRanges
    /\ sweep_results = <<>>
    /\ sweep_done = FALSE
    /\ strategy = "f1"
    /\ best = <<>>
    /\ pick_status = "none"

\* results = sweep_thresholds(scores, labels, start, end, step)
Sweep ==
    /\ ~sweep_done
    /\ sweep_results' = SweepThresholds(scores, labels, sweep_range.start,
                                        sweep_range.end, sweep_range.step)
    /\ sweep_done' = TRUE
    /\ UNCHANGED <<retrVars, call_metadata, indicators, ind_done, aggVars, ibVars, pbVars,
                   ccVars, llVars, scores, labels, sweep_range, strategy, best,
                   pick_status, lateVars>>

\* best = pick_best_threshold(results, strategy=strat)
PickBest(strat) ==
    /\ sweep_done
    /\ pick_status = "none"
    /\ strategy' = strat
    /\ best' = PickBestThreshold(sweep_results, strat).best
    /\ pick_status' = PickBestThreshold(sweep_results, strat).status
    /\ UNCHANGED <<retrVars, call_metadata, indicators, ind_done, aggVars, ibVars, pbVars,
                   ccVars, llVars, scores, labels, sweep_range, sweep_results,
                   sweep_done, lateVars>>

NextSweep ==
    \/ Sweep
    \/ \E strat \in Strategies : PickBest(strat)

SpecSweep == InitSweep /\ [][NextSweep]_vars

----------------------------------------------------------------------------
(* Specification of the sweep on separable labeled sets: NumPositives       *)
(* samples labeled 1 with similarity >= 0.50 and NumNegatives samples       *)
(* labeled 0 with similarity < 0.50, swept with the defaults of             *)
(* sweep_thresholds (0.40 to 0.60 in steps of 0.02).  The metrics count     *)
(* samples, so the order of the samples in the list does not matter; the    *)
(* lists are enumerated in non-decreasing order of similarity.              *)

NumPositives == 10

NumNegatives == 10

\* similarities of the positives: on the boundary, inside and above the range
PositiveScores == <<50, 55, 70>>

\* similarities of the negatives: below the range, inside it and just under 0.50
NegativeScores == <<30, 45, 49>>

\* start=0.40, end=0.60, step=0.02
DefaultRange == [start |-> 40, end |-> 60, step |-> 2]

\* [v] * n
Repeat(v, n) == [i \in 1..n |-> v]

\* the lists of n values of vals in the order of vals
RECURSIVE Multisets(_, _)
Multisets(vals, n) ==
    IF Len(vals) = 1 THEN {Repeat(vals[1], n)}
    ELSE UNION {{Repeat(vals[1], k) \o rest : rest \in Multisets(Tail(vals), n - k)} :
                   k \in 0..n}

InitWorked ==
    /\ PipeIdle
    /\ LateIdle
    /\ CollectIdle
    /\ LabelIdle
    /\ \E pos \in Multisets(PositiveScores, NumPositives) :
       \E neg \in Multisets(NegativeScores, NumNegatives) :
           /\ scores = neg \o pos
           /\ labels = Repeat(0, NumNegatives) \o Repeat(1, NumPositives)
    /\ sweep_range = DefaultRange
    /\ sweep_results = <<>>
    /\ sweep_done = FALSE
    /\ strategy = "f1"
    /\ best = <<>>
    /\ pick_status = "none"

SpecWorked == InitWorked /\ [][NextSweep]_vars

----------------------------------------------------------------------------
(* Hybrid labeling: interactive_review                                      *)
(* A key is the string _get_single_char returns: one character, or the     *)
(* empty string at end of input.  None is Unset, a label v is Cell(v).      *)

\* candidates as collect_candidates returns them
CandidatePool ==
    <<[pattern |-> "q1", call_id |-> "A", section |-> "management", similarity |-> 45,
       text |-> "t1"],
      [pattern |-> "q1", call_id |-> "B", section |-> "qa", similarity |-> 50,
       text |-> "t2"],
      [pattern |-> "q2", call_id |-> "A", section |-> "qa", similarity |-> 55,
       text |-> "t3"]>>

\* the candidates with every label llm_label_candidates can give them
LlmLabeledItems ==
    {LabeledItem(CandidatePool[i], l) : i \in 1..Len(CandidatePool), l \in {0, 1}}

\* what sys.stdin.read(1) can return
ReviewKeys == {<<"y">>, <<"n">>, <<"s">>, <<"q">>, <<"Y">>, <<"N">>, <<"Q">>, <<"x">>, <<>>}

\* variant: 'n' is taken as a skip
HumanLabel_NoIsSkip(key) ==
    IF key = <<"y">> THEN Cell(1) ELSE Unset

\* the if/elif chain after the quit test: y -> 1, n -> 0, s or anything else -> None
HumanLabel(key) ==
    IF key = <<"y">> THEN Cell(1)
    ELSE IF key = <<"n">> THEN Cell(0)
    ELSE Unset

\* {**item, "label_human": human_label}
Annotated(item, human_label) == ("label_human" :> human_label) @@ item

InitReview ==
    /\ PipeIdle
    /\ CalibIdle
    /\ RunIdle
    /\ SearchIdle
    /\ rv_sample \in SeqsUpTo(LlmLabeledItems, MaxReview)
    /\ rv_keys = <<>>
    /\ rv_annotated = <<>>
    /\ rv_pc = "loop"

\* interactive_review: one iteration of the loop over labeled_llm, reading ch
ReviewKey(ch) ==
    /\ rv_pc = "loop"
    /\ Len(rv_keys) < Len(rv_sample)
    /\ rv_keys' = Append(rv_keys, ch)
    /\ LET key  == Lower(ch)
           item == rv_sample[Len(rv_keys) + 1]
       IN  IF key = <<"q">>
           THEN /\ rv_pc' = "returned"
                /\ UNCHANGED rv_annotated
           ELSE /\ rv_annotated' = Append(rv_annotated, Annotated(item, HumanLabel(key)))
                /\ UNCHANGED rv_pc
    /\ UNCHANGED <<earlyVars, swVars, rv_sample, runVars, seVars>>

\* interactive_review: the loop is exhausted, return annotated
ReviewReturn ==
    /\ rv_pc = "loop"
    /\ Len(rv_keys) = Len(rv_sample)
    /\ rv_pc' = "returned"
    /\ UNCHANGED <<earlyVars, swVars, rv_sample, rv_keys, rv_annotated, runVars, seVars>>

NextReview ==
    \/ \E ch \in ReviewKeys : ReviewKey(ch)
    \/ ReviewReturn

SpecReview == InitReview /\ [][NextReview]_vars

----------------------------------------------------------------------------
(* The calibration script run_threshold_calibration.py                      *)
(* A JSON object is the list of its (key, value) entries in order; a value  *)
(* is a number (in hundredths) or a text.  The annotation file is Unset     *)
(* when it does not exist and Cell(rows) when it does.  One run of main()   *)
(* is a sequence of steps; when main returns or raises the process ends     *)
(* and its locals are gone (RunExit), the two files stay.                   *)
(* main() calls SemanticRetriever() without the three arguments its         *)
(* __init__ requires, which raises TypeError before anything is collected;  *)
(* the steps after it are modelled as well, for a retriever that was        *)
(* obtained (both outcomes of ConstructRetriever).                          *)

JsonNumber(n) == [kind |-> "number", num |-> n, text |-> ""]

JsonText(t) == [kind |-> "text", num |-> 0, text |-> t]

\* the keys of a JSON object
JsonKeys(d) == {d[i].key : i \in 1..Len(d)}

\* d[k]
JsonGet(d, k) == d[CHOOSE i \in 1..Len(d) : d[i].key = k].value

\* variant: the object is rebuilt with the threshold alone
JsonSet_Fresh(d, k, v) == <<[key |-> k, value |-> v]>>

\* d[k] = v: an existing key keeps its place, a new one goes last
JsonSet(d, k, v) ==
    IF k \in JsonKeys(d)
    THEN [i \in 1..Len(d) |-> IF d[i].key = k THEN [key |-> k, value |-> v] ELSE d[i]]
    ELSE Append(d, [key |-> k, value |-> v])

\* topic configurations: with a threshold and a further key, and without one
TopicConfigs ==
    {<<[key |-> "description", value |-> JsonText("d")],
       [key |-> "threshold", value |-> JsonNumber(55)],
       [key |-> "queries", value |-> JsonText("q1,q2")],
       [key |-> "notes", value |-> JsonText("n")]>>,
     <<[key |-> "queries", value |-> JsonText("q1,q2")],
       [key |-> "description", value |-> JsonText("d")]>>}

\* export_for_manual_annotation: the rows of the DataFrame written to the file
ExportForManualAnnotation(cands) ==
    [i \in 1..Len(cands) |->
        [pattern |-> cands[i].pattern, call_id |-> cands[i].call_id,
         section |-> cands[i].section, similarity |-> cands[i].similarity,
         text |-> cands[i].text, relevant |-> Unset]]

\* load_manual_annotations: int(row["relevant"]) raises ValueError on an empty cell
LoadManualAnnotations(rows) ==
    IF \E i \in 1..Len(rows) : rows[i].relevant = Unset
    THEN [status |-> "ValueError", labeled |-> <<>>]
    ELSE [status |-> "ok",
          labeled |-> [i \in 1..Len(rows) |->
                         [pattern |-> rows[i].pattern, call_id |-> rows[i].call_id,
                          section |-> rows[i].section, similarity |-> rows[i].similarity,
                          text |-> rows[i].text, label |-> rows[i].relevant[1]]]]

\* the candidates the collections of the runs find
RunPool == SubSeq(CandidatePool, 1, 2)

\* what collect_candidates can return: any of them, in the pool's order
CandidateLists ==
    {SelectSeq(RunPool, LAMBDA c : c \in S) :
        S \in SUBSET {RunPool[i] : i \in 1..Len(RunPool)}}

\* what llm_label_candidates can return for cands: a label per candidate
LlmLabelOutcomes(cands) ==
    {[i \in 1..Len(cands) |-> LabeledItem(cands[i], ls[i])] :
        ls \in [1..Len(cands) -> {0, 1}]}

\* annotation files an earlier export and a human's editing can have left:
\* rows of the first candidates, each relevant cell empty, 0 or 1
AnnotationFiles ==
    {Unset} \cup
    {Cell([i \in 1..Len(rel) |->
              [ExportForManualAnnotation(RunPool)[i] EXCEPT !.relevant = rel[i]]]) :
        rel \in SeqsUpTo({Unset, Cell(0), Cell(1)}, Len(RunPool))}

\* default bins of stratified_random_sample
HybridBins ==
    <<<<80, 100>>, <<70, 80>>, <<60, 70>>, <<50, 60>>, <<40, 50>>, <<30, 40>>>>

\* default samples_per_bin of stratified_random_sample
HybridSamplesPerBin == 15

\* the first bin with low <= sim < high, 0 if there is none
HybridBinOf(sim) ==
    IF \E i \in 1..Len(HybridBins) : HybridBins[i][1] <= sim /\ sim < HybridBins[i][2]
    THEN CHOOSE i \in 1..Len(HybridBins) :
             /\ HybridBins[i][1] <= sim /\ sim < HybridBins[i][2]
             /\ \A j \in 1..(i - 1) : ~(HybridBins[j][1] <= sim /\ sim < HybridBins[j][2])
    ELSE 0

\* stratified_random_sample(items): from each bin min(samples_per_bin, len)
\* items chosen without replacement, the selection shuffled
StratifiedRandomSample(items) ==
    LET Group(b) == {i \in 1..Len(items) : HybridBinOf(items[i].similarity) = b}
        Quota(b) == IF Cardinality(Group(b)) < HybridSamplesPerBin
                    THEN Cardinality(Group(b)) ELSE HybridSamplesPerBin
        Selections == {I \in SUBSET (1..Len(items)) :
                          /\ \A i \in I : HybridBinOf(items[i].similarity) # 0
                          /\ \A b \in 1..Len(HybridBins) :
                                 Cardinality(I \cap Group(b)) = Quota(b)}
        Orders(I) == {o \in [1..Cardinality(I) -> I] :
                         \A j, k \in 1..Cardinality(I) : o[j] = o[k] => j = k}
    IN  UNION {{[k \in 1..Len(o) |-> items[o[k]]] : o \in Orders(I)} : I \in Selections}

\* answers typed at the overwrite prompt
ConfirmAnswers ==
    {<<"y">>, <<"Y", "E", "S">>, <<" ", "y", " ">>, <<"n">>, <<>>, <<"y", "e", "s", "s">>}

\* variant: any answer that starts with y confirms
Confirmed_StartsWithY(answer) ==
    Lower(Strip(answer)) # <<>> /\ Lower(Strip(answer))[1] = "y"

\* input(...).strip().lower() in ("y", "yes")
Confirmed(answer) ==
    Lower(Strip(answer)) \in {<<"y">>, <<"y", "e", "s">>}

\* variant: a missing file is reported like a missing flag
ExpertCheck_OneError(import_flag, file_exists) ==
    IF ~import_flag \/ ~file_exists THEN "ValueError" ELSE "none"

\* expert mode without --export: the error main raises before loading, if any
ExpertCheck(import_flag, file_exists) ==
    IF ~import_flag THEN "ValueError"
    ELSE IF ~file_exists THEN "FileNotFoundError"
    ELSE "none"

\* variant: the human label is used where there is one
LabelOf_Human(c) ==
    IF "label_human" \in DOMAIN c /\ c.label_human # Unset THEN c.label_human[1]
    ELSE c.label

\* c["label"]
LabelOf(c) == c.label

\* command lines: --mode, --export, --import (the flags are read in expert mode only)
RunArgs ==
    {[mode |-> "llm", export |-> FALSE, import |-> FALSE],
     [mode |-> "hybrid", export |-> FALSE, import |-> FALSE]}
    \cup {[mode |-> "expert", export |-> e, import |-> i] : e, i \in BOOLEAN}

\* the locals of main and of the functions it calls are as before the run
LocalsCleared ==
    /\ queries' = <<>>
    /\ run_candidates' = <<>>
    /\ run_labeled' = <<>>
    /\ confirm' = <<>>
    /\ l_candidates' = <<>>
    /\ l_answers' = <<>>
    /\ labeled' = <<>>
    /\ l_done' = FALSE
    /\ scores' = <<>>
    /\ labels' = <<>>
    /\ sweep_range' = [start |-> 0, end |-> 0, step |-> 1]
    /\ sweep_results' = <<>>
    /\ sweep_done' = FALSE
    /\ strategy' = "f1"
    /\ best' = <<>>
    /\ pick_status' = "none"
    /\ rv_sample' = <<>>
    /\ rv_keys' = <<>>
    /\ rv_annotated' = <<>>
    /\ rv_pc' = "idle"

\* variables no step of main touches
runFrame == <<retrVars, call_metadata, indicators, ind_done, aggVars, ibVars, pbVars,
              ccVars, seVars>>

InitRun ==
    /\ PipeIdle
    /\ CalibIdle
    /\ ReviewIdle
    /\ SearchIdle
    /\ args = [mode |-> "llm", export |-> FALSE, import |-> FALSE]
    /\ run_pc = "idle"
    /\ run_error = "none"
    /\ runs = 0
    /\ config_file \in TopicConfigs
    /\ annotation_file \in AnnotationFiles
    /\ queries = <<>>
    /\ run_candidates = <<>>
    /\ run_labeled = <<>>
    /\ confirm = <<>>

\* main: parse_args and queries, query_file = load_queries(args.topic)
RunStart(a) ==
    /\ run_pc = "idle"
    /\ runs < MaxRuns
    /\ args' = a
    /\ runs' = runs + 1
    /\ queries' = config_file
    /\ run_error' = "none"
    /\ run_pc' = "loaded"
    /\ UNCHANGED <<runFrame, confirm, llVars, swVars, rvVars, config_file, annotation_file,
                   run_candidates, run_labeled>>

\* main: retriever = SemanticRetriever()
ConstructRetriever ==
    /\ run_pc = "loaded"
    /\ \/ run_pc' = "raised" /\ run_error' = "TypeError"
       \/ run_pc' = "constructed" /\ UNCHANGED run_error
    /\ UNCHANGED <<runFrame, confirm, llVars, swVars, rvVars, args, runs, config_file,
                   annotation_file, queries, run_candidates, run_labeled>>

\* main: candidates = collect_candidates(...), which returns a list or raises
RunCollect ==
    /\ run_pc = "constructed"
    /\ \/ /\ run_candidates' \in CandidateLists
          /\ run_pc' = "collected"
          /\ UNCHANGED run_error
       \/ /\ run_pc' = "raised"
          /\ run_error' = "Exception"
          /\ UNCHANGED run_candidates
    /\ UNCHANGED <<runFrame, confirm, llVars, swVars, rvVars, args, runs, config_file,
                   annotation_file, queries, run_labeled>>

\* main, expert mode with --export: the overwrite prompt and the export
RunExport(answer) ==
    /\ run_pc = "collected"
    /\ args.mode = "expert"
    /\ args.export
    /\ confirm' = IF annotation_file # Unset THEN Cell(Lower(Strip(answer))) ELSE Unset
    /\ IF annotation_file # Unset /\ ~Confirmed(answer)
       THEN UNCHANGED annotation_file
       ELSE annotation_file' = Cell(ExportForManualAnnotation(run_candidates))
    /\ run_pc' = "returned"
    /\ UNCHANGED <<runFrame, llVars, swVars, rvVars, args, run_error, runs, config_file,
                   queries, run_candidates, run_labeled>>

\* main, expert mode without --export: the import, or ValueError without --import
RunImport ==
    /\ run_pc = "collected"
    /\ args.mode = "expert"
    /\ ~args.export
    /\ IF ExpertCheck(args.import, annotation_file # Unset) # "none"
       THEN run_pc' = "raised"
            /\ run_error' = ExpertCheck(args.import, annotation_file # Unset)
            /\ UNCHANGED run_labeled
       ELSE LET loaded == LoadManualAnnotations(annotation_file[1])
            IN  IF loaded.status = "ok"
                THEN run_pc' = "labeled" /\ run_labeled' = loaded.labeled
                     /\ UNCHANGED run_error
                ELSE run_pc' = "raised" /\ run_error' = loaded.status
                     /\ UNCHANGED run_labeled
    /\ UNCHANGED <<runFrame, confirm, llVars, swVars, rvVars, args, runs, config_file,
                   annotation_file, queries, run_candidates>>

\* main, llm and hybrid mode: llm_label_candidates(queries['description'],
\* candidates), which returns the labeled list or raises (a failed request)
RunLlmLabel ==
    /\ run_pc = "collected"
    /\ args.mode \in {"llm", "hybrid"}
    /\ \/ /\ l_candidates' = run_candidates
          /\ labeled' \in LlmLabelOutcomes(run_candidates)
          /\ l_done' = TRUE
          /\ IF args.mode = "llm"
             THEN run_labeled' = labeled' /\ run_pc' = "labeled"
             ELSE UNCHANGED run_labeled /\ run_pc' = "llm_labeled"
          /\ UNCHANGED run_error
       \/ /\ run_pc' = "raised"
          /\ run_error' = "APIError"
          /\ UNCHANGED <<l_candidates, labeled, l_done, run_labeled>>
    /\ UNCHANGED <<runFrame, confirm, l_answers, swVars, rvVars, args, runs, config_file,
                   annotation_file, queries, run_candidates>>

\* run_hybrid_labeling: sample = stratified_random_sample(labeled_llm) and the
\* call of interactive_review(sample)
RunHybridSample ==
    /\ run_pc = "llm_labeled"
    /\ rv_sample' \in StratifiedRandomSample(labeled)
    /\ rv_keys' = <<>>
    /\ rv_annotated' = <<>>
    /\ rv_pc' = "loop"
    /\ run_pc' = "reviewing"
    /\ UNCHANGED <<runFrame, confirm, llVars, swVars, args, run_error, runs, config_file,
                   annotation_file, queries, run_candidates, run_labeled>>

\* run_hybrid_labeling: compute_agreement(annotated), which only reports, and
\* return annotated; main: labeled = run_hybrid_labeling(labeled_llm)
RunHybridReturn ==
    /\ run_pc = "reviewing"
    /\ rv_pc = "returned"
    /\ run_labeled' = rv_annotated
    /\ run_pc' = "labeled"
    /\ UNCHANGED <<runFrame, confirm, llVars, swVars, rvVars, args, run_error, runs, config_file,
                   annotation_file, queries, run_candidates>>

\* main: scores = [c["similarity"] ...], labels = [c["label"] ...]
RunExtract ==
    /\ run_pc = "labeled"
    /\ scores' = [i \in 1..Len(run_labeled) |-> run_labeled[i].similarity]
    /\ labels' = [i \in 1..Len(run_labeled) |-> LabelOf(run_labeled[i])]
    /\ sweep_range' = DefaultRange
    /\ run_pc' = "extracted"
    /\ UNCHANGED <<runFrame, confirm, llVars, sweep_results, sweep_done, strategy, best,
                   pick_status, rvVars, args, run_error, runs, config_file,
                   annotation_file, queries, run_candidates, run_labeled>>

\* main: results = sweep_thresholds(scores, labels, args.start, args.end, args.step)
RunSweep == run_pc = "extracted" /\ Sweep

\* main: best = pick_best_threshold(results, strategy="f1")
RunSelect == run_pc = "extracted" /\ PickBest("f1")

\* main: update_threshold_in_config(query_file, queries, best["threshold"])
RunPersist ==
    /\ run_pc = "extracted"
    /\ pick_status = "ok"
    /\ queries' = JsonSet(queries, "threshold", JsonNumber(best.threshold))
    /\ config_file' = queries'
    /\ run_pc' = "persisted"
    /\ UNCHANGED <<runFrame, confirm, llVars, swVars, rvVars, args, run_error, runs,
                   annotation_file, run_candidates, run_labeled>>

\* main has returned or raised: the process ends, the files and the count of
\* runs are all that is left of it
RunExit ==
    /\ run_pc \in {"returned", "raised", "persisted"}
    /\ LocalsCleared
    /\ args' = [mode |-> "llm", export |-> FALSE, import |-> FALSE]
    /\ run_error' = "none"
    /\ run_pc' = "idle"
    /\ UNCHANGED <<runFrame, runs, config_file, annotation_file>>

\* keys pressed during a run's review
RunKeys == {<<"y">>, <<"n">>, <<"s">>, <<"q">>}

NextRun ==
    \/ \E a \in RunArgs : RunStart(a)
    \/ ConstructRetriever
    \/ RunCollect
    \/ \E answer \in ConfirmAnswers : RunExport(answer)
    \/ RunImport
    \/ RunLlmLabel
    \/ RunHybridSample
    \/ run_pc = "reviewing" /\ \E ch \in RunKeys : ReviewKey(ch)
    \/ run_pc = "reviewing" /\ ReviewReturn
    \/ RunHybridReturn
    \/ RunExtract
    \/ RunSweep
    \/ RunSelect
    \/ RunPersist
    \/ RunExit

SpecRun == InitRun /\ [][NextRun]_vars

----------------------------------------------------------------------------
(* SemanticRetriever.search_by_embedding over several indexes               *)
(* The FAISS index is a library object: what index.search(q, top_k) returns *)
(* is an input, a row of top_k (score, id) pairs of which the first are     *)
(* results in non-increasing score order with distinct ids and the rest,    *)
(* when the index has fewer results, carry the id -1.                       *)

\* names of the loaded indexes, in the order of self.indexes
IndexNames == <<"SP500", "STOXX600", "OTHER">>

\* the filler pair of a row
NoResult == [score |-> -1, faiss_id |-> -1]

\* the pairs an index can return for a passage
SearchPairs == {[score |-> sc, faiss_id |-> f] : sc \in {50, 60, 70}, f \in {0, 1}}

\* the rows index.search(q, k) can return
SearchRows(k) ==
    {r \in [1..k -> SearchPairs \cup {NoResult}] :
        /\ \A i \in 1..(k - 1) : r[i] = NoResult => r[i + 1] = NoResult
        /\ \A i \in 1..(k - 1) : r[i + 1] # NoResult => r[i].score >= r[i + 1].score
        /\ \A i, j \in 1..k :
               (r[i] # NoResult /\ r[i].faiss_id = r[j].faiss_id) => i = j}

\* variant: every pair of a row is kept
KeepPair_All(fid) == TRUE

\* if fid < 0: continue
KeepPair(fid) == fid >= 0

\* the inner loop over zip(scores, ids): the results appended for one index
RECURSIVE IndexResults(_, _)
IndexResults(name, row) ==
    IF row = <<>> THEN <<>>
    ELSE IF KeepPair(Head(row).faiss_id)
    THEN <<[score |-> Head(row).score, faiss_id |-> Head(row).faiss_id,
            index_name |-> name, snippet |-> <<name, Head(row).faiss_id>>]>>
         \o IndexResults(name, Tail(row))
    ELSE IndexResults(name, Tail(row))

\* r inserted behind every result of greater or equal score
RECURSIVE InsertByScore(_, _)
InsertByScore(sorted, r) ==
    IF sorted = <<>> THEN <<r>>
    ELSE IF Head(sorted).score < r.score THEN <<r>> \o sorted
    ELSE <<Head(sorted)>> \o InsertByScore(Tail(sorted), r)

\* all_results.sort(key=lambda r: r["score"], reverse=True): stable
RECURSIVE SortedByScore(_)
SortedByScore(rs) ==
    IF rs = <<>> THEN <<>>
    ELSE InsertByScore(SortedByScore(SubSeq(rs, 1, Len(rs) - 1)), rs[Len(rs)])

\* lst[:k]
Truncated(lst, k) == SubSeq(lst, 1, IF Len(lst) < k THEN Len(lst) ELSE k)

InitSearch ==
    /\ PipeIdle
    /\ CalibIdle
    /\ ReviewIdle
    /\ RunIdle
    /\ se_top_k \in 1..MaxTopK
    /\ se_indexes \in UNION {[1..n -> SearchRows(se_top_k)] : n \in 0..MaxIndexes}
    /\ se_pos = 0
    /\ all_results = <<>>
    /\ se_out = <<>>
    /\ se_pc = "loop"

\* search_by_embedding: one iteration of the loop over self.indexes.items()
SearchIndex ==
    /\ se_pc = "loop"
    /\ se_pos < Len(se_indexes)
    /\ se_pos' = se_pos + 1
    /\ all_results' = all_results \o IndexResults(IndexNames[se_pos'], se_indexes[se_pos'])
    /\ UNCHANGED <<earlyVars, swVars, rvVars, runVars, se_indexes, se_top_k, se_out, se_pc>>

\* search_by_embedding: sort all_results and return all_results[:top_k]
SearchReturn ==
    /\ se_pc = "loop"
    /\ se_pos = Len(se_indexes)
    /\ all_results' = SortedByScore(all_results)
    /\ se_out' = Truncated(all_results', se_top_k)
    /\ se_pc' = "returned"
    /\ UNCHANGED <<earlyVars, swVars, rvVars, runVars, se_indexes, se_top_k, se_pos>>

NextSearch == SearchIndex \/ SearchReturn

SpecSearch == InitSearch /\ [][NextSearch]_vars

----------------------------------------------------------------------------
(* Specification of the aggregator alone: one _compute_call_indicators call *)
(* for call "A" on arbitrary hits and metadata                              *)

InitAgg ==
    /\ results = [p \in Patterns |-> <<>>]
    /\ threshold = 55
    /\ hits_by_call = <<>>
    /\ batch_done = FALSE
    /\ access = "none"
    /\ batch_size = 0
    /\ g_pc = "idle"
    /\ g_pat = 0
    /\ g_hits = <<>>
    /\ g_pos = 0
    /\ streamed = <<>>
    /\ batch = <<>>
    /\ batches = <<>>
    /\ b_done = FALSE
    /\ call_metadata \in MetadataTables
    /\ indicators = <<>>
    /\ ind_done = FALSE
    /\ agg_hits \in SeqsUpTo(HitSpace, MaxHits)
    /\ agg_out = EmptyIndicators
    /\ agg_done = FALSE
    /\ MoreIdle

\* IndicatorBuilder(call_metadata)._compute_call_indicators("A", agg_hits)
ComputeCall ==
    /\ ~agg_done
    /\ agg_out' = ComputeCallIndicators(call_metadata, "A", agg_hits)
    /\ agg_done' = TRUE
    /\ UNCHANGED <<retrVars, call_metadata, indicators, ind_done, agg_hits, moreVars>>

NextAgg == ComputeCall

SpecAgg == InitAgg /\ [][NextAgg]_vars

----------------------------------------------------------------------------
(* Properties of ConceptRetriever *)

\* the items of the results res that reach the threshold, as
\* [pattern, rank, faiss_id, score] records
QualItems(res) ==
    {[pattern |-> p, rank |-> i, faiss_id |-> res[p][i].faiss_id,
      score |-> res[p][i].score] :
        <<p, i>> \in {q \in Patterns \X (1..TopK) :
                        /\ q[2] <= Len(res[q[1]])
                        /\ res[q[1]][q[2]].score >= threshold}}

\* the hits of a mapping, as [entry, rank, faiss_id, similarity] records
HitItems(d) ==
    UNION {{[entry |-> e, rank |-> j, faiss_id |-> d[e].hits[j].faiss_id,
             similarity |-> d[e].hits[j].similarity] : j \in 1..Len(d[e].hits)} :
           e \in 1..Len(d)}

\* C1: retrieve_hits returns exactly one hit per (pattern, result) pair whose
\* score is >= threshold and none below it; every hit is stored under its own
\* call_id, no key maps to an empty list, and a call without a qualifying
\* result has no key.
C1_RetrieveHitsExact ==
    batch_done =>
        LET qual == QualItems(results)
            hits == HitItems(hits_by_call)
        IN  /\ DistinctKeys(hits_by_call)
            /\ \A e \in 1..Len(hits_by_call) :
                  /\ hits_by_call[e].hits # <<>>
                  /\ \A j \in 1..Len(hits_by_call[e].hits) :
                        /\ hits_by_call[e].hits[j].call_id = hits_by_call[e].call_id
                        /\ hits_by_call[e].hits[j].similarity >= threshold
            /\ Cardinality(hits) = Cardinality(qual)
            /\ \A f \in FaissIds, s \in Scores :
                  Cardinality({h \in hits : h.faiss_id = f /\ h.similarity = s})
                  = Cardinality({q \in qual : q.faiss_id = f /\ q.score = s})
            /\ \A c \in CallIds :
                  c \in Keys(hits_by_call)
                  <=> \E q \in qual : Snippets[q.faiss_id].call_id = c

\* retrieve_hits has kept a result at the threshold, discarded one below it,
\* grouped hits of two calls, and some call of the results has no key
C1_Witness ==
    /\ batch_done
    /\ Len(hits_by_call) >= 2
    /\ \E q \in QualItems(results) : q.score = threshold
    /\ \E p \in Patterns : \E i \in 1..Len(results[p]) :
          /\ results[p][i].score < threshold
          /\ results[p][i].snippet.call_id \notin Keys(hits_by_call)

RECURSIVE SumOver(_, _)
SumOver(w, S) ==
    IF S = {} THEN 0
    ELSE LET x == CHOOSE y \in S : TRUE IN w[x] + SumOver(w, S \ {x})

\* the passages of call c
PassagesOf(c) == {f \in FaissIds : Snippets[f].call_id = c}

\* sentence_count a hit of passage f carries
SentencesOf(f) ==
    IF "sentence_count" \in DOMAIN Snippets[f] THEN Snippets[f].sentence_count ELSE 1

\* per passage, the number of patterns that return it at or above the threshold
MatchCounts ==
    LET qual == QualItems(results)
    IN  [f \in FaissIds |-> Cardinality({q \in qual : q.faiss_id = f})]

\* C2: hits are not deduplicated across patterns: a passage returned at or
\* above the threshold for k patterns has k hits in its call's list, counts k
\* times in n_hits_total and adds its sentence_count k times to
\* sentences_total_hits and to exposure.
C2_NoDedupAcrossPatterns ==
    ind_done =>
        LET k == MatchCounts
        IN  \A e \in 1..Len(indicators) :
            LET c   == indicators[e].call_id
                ind == indicators[e].ind
                hs  == Get(hits_by_call, c).hits
                sentences == SumOver([f \in FaissIds |-> k[f] * SentencesOf(f)],
                                     PassagesOf(c))
            IN  /\ \A f \in PassagesOf(c) :
                      Cardinality({j \in 1..Len(hs) : hs[j].faiss_id = f}) = k[f]
                /\ c \in DOMAIN call_metadata =>
                      /\ ind.n_hits_total = SumOver(k, PassagesOf(c))
                      /\ ind.sentences_total_hits = sentences
                      /\ call_metadata[c].total_sentences > 0 =>
                            RatEq(ind.exposure,
                                  Rat(sentences, call_metadata[c].total_sentences))

\* indicators were built for a call one of whose passages matched two patterns
C2_Witness ==
    /\ ind_done
    /\ \E e \in 1..Len(indicators) :
          /\ indicators[e].call_id \in DOMAIN call_metadata
          /\ \E f \in PassagesOf(indicators[e].call_id) : MatchCounts[f] = 2

\* C3: the pairs yielded by retrieve_hits_streaming form the same mapping as
\* retrieve_hits: the same call_ids, each yielded once, and for every call the
\* same hits.
C3_StreamingMatchesBatch ==
    (access = "streaming" /\ g_pc = "done" /\ batch_done) =>
        /\ DistinctKeys(streamed)
        /\ Keys(streamed) = Keys(hits_by_call)
        /\ \A c \in Keys(hits_by_call) :
              /\ Len(Get(streamed, c).hits) = Len(Get(hits_by_call, c).hits)
              /\ Get(streamed, c).hits = Get(hits_by_call, c).hits

\* the generator was consumed to its end, for two calls, one with several hits
C3_Witness ==
    /\ access = "streaming"
    /\ g_pc = "done"
    /\ batch_done
    /\ Len(streamed) >= 2
    /\ \E e \in 1..Len(streamed) : Len(streamed[e].hits) >= 2

\* the entries of a sequence of dictionaries, in order
RECURSIVE Concat(_)
Concat(ds) == IF ds = <<>> THEN <<>> ELSE Head(ds) \o Concat(Tail(ds))

\* C4: for every batch_size >= 1 the dictionaries yielded by
\* retrieve_hits_batched hold at most batch_size calls, are never empty, all but
\* the last hold exactly batch_size calls, have pairwise disjoint key sets and
\* follow the generator's encounter order; merged in order they reproduce the
\* retrieve_hits mapping.
C4_BatchedReassembles ==
    access = "batched" =>
        /\ \A i \in 1..Len(batches) :
              /\ Len(batches[i]) >= 1
              /\ Len(batches[i]) <= batch_size
              /\ DistinctKeys(batches[i])
              /\ (i < Len(batches) \/ ~b_done) => Len(batches[i]) = batch_size
        /\ \A i, j \in 1..Len(batches) :
              i # j => Keys(batches[i]) \cap Keys(batches[j]) = {}
        /\ ~b_done => Concat(batches) \o batch = streamed
        /\ b_done => Concat(batches) = streamed
        /\ (b_done /\ batch_done) =>
              /\ Keys(Concat(batches)) = Keys(hits_by_call)
              /\ Len(Concat(batches)) = Len(hits_by_call)
              /\ \A c \in Keys(hits_by_call) :
                    Get(Concat(batches), c).hits = Get(hits_by_call, c).hits

\* three calls went out as a full batch of two and a last batch of one
C4_Witness ==
    /\ access = "batched"
    /\ b_done
    /\ batch_done
    /\ batch_size = 2
    /\ Len(batches) = 2
    /\ Len(batches[1]) = 2
    /\ Len(batches[2]) = 1

\* C5 as stated: when batch_size is larger than the number of calls with hits,
\* retrieve_hits_batched emits exactly one batch, whose key set is that of
\* retrieve_hits().
C5_Original ==
    (access = "batched" /\ b_done /\ batch_done /\ batch_size > Len(hits_by_call)) =>
        /\ Len(batches) = 1
        /\ Keys(batches[1]) = Keys(hits_by_call)

\* C5, amended: when batch_size is larger than the number of calls with hits and
\* at least one call has a hit, retrieve_hits_batched emits exactly one batch,
\* whose key set is that of retrieve_hits(); when no call has a hit it emits no
\* batch.
C5_SingleBatch ==
    (access = "batched" /\ b_done /\ batch_done /\ batch_size > Len(hits_by_call)) =>
        IF hits_by_call = <<>>
        THEN batches = <<>>
        ELSE /\ Len(batches) = 1
             /\ Keys(batches[1]) = Keys(hits_by_call)

\* two calls with hits went out as one batch under batch_size 3
C5_Witness ==
    /\ access = "batched"
    /\ b_done
    /\ batch_done
    /\ batch_size = 3
    /\ Len(hits_by_call) = 2
    /\ Len(batches) = 1

\* C6: the generator yields no pair (and retrieve_hits_batched no batch) before
\* every pattern has been searched, and once the first pair is yielded no hit is
\* appended to any call's hit list.
C6_NoYieldBeforeScanEnds ==
    /\ []((streamed # <<>> \/ batches # <<>>) => g_pat = NumPatterns)
    /\ [][streamed # <<>> => g_hits' = g_hits]_vars

\* a pair was yielded for a run in which the later pattern added a hit (the same
\* passage again) to a call the earlier pattern had already touched
C6_Witness ==
    /\ streamed # <<>>
    /\ g_pat = NumPatterns
    /\ \E e \in 1..Len(g_hits) : \E i, j \in 1..Len(g_hits[e].hits) :
          i < j /\ g_hits[e].hits[i].faiss_id = g_hits[e].hits[j].faiss_id

----------------------------------------------------------------------------
(* Properties of IndicatorBuilder *)

\* the positions of the hits whose section is in secs
Positions(hits, secs) == {i \in 1..Len(hits) : hits[i].section \in secs}

\* the formulas of one subset I of the positions of hits, with denominator den
SubsetFormulas(hits, I, den, exposure, avgSim, intensity, n, sentences) ==
    LET hit_sentences == SumOver([i \in 1..Len(hits) |-> hits[i].sentence_count], I)
        similarities  == SumOver([i \in 1..Len(hits) |-> hits[i].similarity], I)
    IN  /\ sentences = hit_sentences
        /\ n = Cardinality(I)
        /\ exposure.den > 0 /\ avgSim.den > 0 /\ intensity.den > 0
        /\ IF den > 0
           THEN exposure.num * den = hit_sentences * exposure.den
           ELSE exposure.num = 0
        /\ IF I # {}
           THEN avgSim.num * 100 * Cardinality(I) = similarities * avgSim.den
           ELSE avgSim.num = 0
        /\ intensity.num * exposure.den * avgSim.den
             = exposure.num * avgSim.num * intensity.den

ExampleHits ==
    << [faiss_id |-> 0, similarity |-> 60, sentence_count |-> 4,
        section |-> "management", call_id |-> "A"],
       [faiss_id |-> 0, similarity |-> 55, sentence_count |-> 3,
        section |-> "qa", call_id |-> "A"] >>

\* C7: with metadata present, each of overall / management / qa has
\* hit_sentences = sum of sentence_count over the subset, exposure =
\* hit_sentences / denominator if the denominator is > 0 else 0, avgSim = mean
\* similarity if the subset is non-empty else 0, intensity = exposure * avgSim;
\* metadata 300/180/120 with hits (4, management, 0.60), (3, qa, 0.55) gives
\* exposure 7/300, avgSim 0.575, mgmt_exposure 4/180, qa_exposure 3/120,
\* n_hits_total 2.
C7_IndicatorFormulas ==
    (agg_done /\ "A" \in DOMAIN call_metadata) =>
        LET meta == call_metadata["A"]
            o    == agg_out
        IN  /\ SubsetFormulas(agg_hits, 1..Len(agg_hits), meta.total_sentences,
                              o.exposure, o.avgSim, o.intensity,
                              o.n_hits_total, o.sentences_total_hits)
            /\ SubsetFormulas(agg_hits, Positions(agg_hits, {"management"}),
                              meta.management_sentences,
                              o.mgmt_exposure, o.mgmt_avgSim, o.mgmt_intensity,
                              o.n_hits_mgmt, o.sentences_mgmt_hits)
            /\ SubsetFormulas(agg_hits, Positions(agg_hits, {"qa"}),
                              meta.qa_sentences,
                              o.qa_exposure, o.qa_avgSim, o.qa_intensity,
                              o.n_hits_qa, o.sentences_qa_hits)
            /\ (meta = Meta(300, 180, 120) /\ agg_hits = ExampleHits) =>
                  /\ RatEq(o.exposure, Rat(7, 300))
                  /\ RatEq(o.avgSim, Rat(575, 1000))
                  /\ RatEq(o.intensity, Rat(7 * 575, 300 * 1000))
                  /\ RatEq(o.mgmt_exposure, Rat(4, 180))
                  /\ RatEq(o.qa_exposure, Rat(3, 120))
                  /\ o.n_hits_total = 2

\* the worked example has been aggregated
C7_Witness ==
    /\ agg_done
    /\ "A" \in DOMAIN call_metadata
    /\ call_metadata["A"] = Meta(300, 180, 120)
    /\ agg_hits = ExampleHits

\* C8: for a call_id absent from call_metadata the aggregator returns the
\* all-zero record, whatever hits were passed.
C8_MissingMetadataAllZero ==
    (agg_done /\ "A" \notin DOMAIN call_metadata) =>
        /\ \A k \in {"exposure", "avgSim", "intensity", "mgmt_exposure", "mgmt_avgSim",
                     "mgmt_intensity", "qa_exposure", "qa_avgSim", "qa_intensity"} :
              agg_out[k].num = 0 /\ agg_out[k].den > 0
        /\ \A k \in {"n_hits_total", "n_hits_mgmt", "n_hits_qa", "sentences_total_hits",
                     "sentences_mgmt_hits", "sentences_qa_hits"} :
              agg_out[k] = 0

\* hits with sentences were aggregated for a call without a metadata record
C8_Witness ==
    /\ agg_done
    /\ "A" \notin DOMAIN call_metadata
    /\ \E i \in 1..Len(agg_hits) : agg_hits[i].sentence_count > 0

\* 0 <= r <= 1
InUnit(r) == RatLeq(RatZero, r) /\ RatLeq(r, Rat(1, 1))

\* the exposure bound of one subset I, with denominator den
ExposureBound(hits, I, den, exposure) ==
    LET hit_sentences == SumOver([i \in 1..Len(hits) |-> hits[i].sentence_count], I)
    IN  /\ hit_sentences <= den => InUnit(exposure)
        /\ (den > 0 /\ hit_sentences > den) =>
              /\ RatEq(exposure, Rat(hit_sentences, den))
              /\ ~RatLeq(exposure, Rat(1, 1))

\* C9: with metadata present and non-negative sentence counts, a subset whose
\* hit sentence_count sum does not exceed its denominator has 0 <= exposure <= 1;
\* with all similarities in [0,1], 0 <= avgSim <= 1; no clamp: a sum above a
\* positive denominator gives exposure = hit_sentences / denominator > 1.
C9_ExposureBound ==
    (agg_done /\ "A" \in DOMAIN call_metadata) =>
        LET meta == call_metadata["A"]
        IN  /\ ExposureBound(agg_hits, 1..Len(agg_hits), meta.total_sentences,
                             agg_out.exposure)
            /\ ExposureBound(agg_hits, Positions(agg_hits, {"management"}),
                             meta.management_sentences, agg_out.mgmt_exposure)
            /\ ExposureBound(agg_hits, Positions(agg_hits, {"qa"}),
                             meta.qa_sentences, agg_out.qa_exposure)
            /\ (\A i \in 1..Len(agg_hits) :
                    agg_hits[i].similarity >= 0 /\ agg_hits[i].similarity <= 100) =>
                  /\ InUnit(agg_out.avgSim)
                  /\ InUnit(agg_out.mgmt_avgSim)
                  /\ InUnit(agg_out.qa_avgSim)

\* the hits of a call cover more sentences than the call has
C9_Witness ==
    /\ agg_done
    /\ "A" \in DOMAIN call_metadata
    /\ call_metadata["A"].total_sentences > 0
    /\ agg_out.sentences_total_hits > call_metadata["A"].total_sentences
    /\ agg_out.exposure.num > agg_out.exposure.den

\* C10: management and qa partition a call's hits: for every call with metadata
\* n_hits_mgmt + n_hits_qa = n_hits_total and
\* sentences_mgmt_hits + sentences_qa_hits = sentences_total_hits.
C10_SectionsPartitionHits ==
    ind_done =>
        \A e \in 1..Len(indicators) :
            indicators[e].call_id \in DOMAIN call_metadata =>
                LET ind == indicators[e].ind
                IN  /\ ind.n_hits_mgmt + ind.n_hits_qa = ind.n_hits_total
                    /\ ind.sentences_mgmt_hits + ind.sentences_qa_hits
                         = ind.sentences_total_hits

----------------------------------------------------------------------------
(* C11 *)

\* the indicator records of a dictionary, by call
RecordOf(d, c) == Get(d, c).ind

\* C11: once build_indicators_streaming (or build_indicators_batched) has
\* consumed the retrieval of the same patterns, what it yielded has exactly
\* the call_ids of build_indicators' result, each once, and for every call
\* the same indicator record, field by field.
C11_StreamingIndicatorsMatchBatch ==
    /\ (access = "ind_streaming" /\ g_pc = "done") =>
          /\ DistinctKeys(ind_streamed)
          /\ Keys(ind_streamed) = Keys(indicators)
          /\ \A c \in Keys(indicators) :
                 RecordOf(ind_streamed, c) = RecordOf(indicators, c)
    /\ (access = "ind_batched" /\ g_pc = "done") =>
          /\ DistinctKeys(Concat(ind_batches))
          /\ Keys(Concat(ind_batches)) = Keys(indicators)
          /\ \A c \in Keys(indicators) :
                 RecordOf(Concat(ind_batches), c) = RecordOf(indicators, c)

\* the streaming API has finished on two calls, one with a record in the
\* metadata and a non-zero exposure, one without a record
C11_Witness ==
    /\ access = "ind_streaming"
    /\ g_pc = "done"
    /\ Len(ind_streamed) >= 2
    /\ \E i \in 1..Len(ind_streamed) : ind_streamed[i].ind.exposure.num > 0
    /\ \E i \in 1..Len(ind_streamed) : ind_streamed[i].call_id \notin DOMAIN call_metadata

----------------------------------------------------------------------------
(* C12 *)

\* the index labels the rows of the panel came from
Origins(rows) == {rows[i].origin : i \in 1..Len(rows)}

\* C12: when build returns a panel, the panel has exactly one row for every
\* call_id of call_metadata, with or without indicators for it, and no row
\* for a call_id that occurs only in the indicators; a row carries the
\* indicators of its call when there are some.
C12_LeftJoinDrivenByMetadata ==
    pb_status = "ok" =>
        /\ Origins(panel) = DOMAIN call_metadata
        /\ Len(panel) = Cardinality(DOMAIN call_metadata)
        /\ \A i \in 1..Len(panel) :
               panel[i].origin \in Keys(pb_indicators) =>
                   \A c \in IndicatorColumns(pb_indicators) :
                       panel[i].cells[c] =
                           Cell(Get(pb_indicators, panel[i].origin).ind[c])

\* a panel of two rows: "A" has indicators, "C" has none, and the indicators
\* of "B", which has no metadata, were passed too
C12_Witness ==
    /\ pb_status = "ok"
    /\ DOMAIN call_metadata = {"A", "C"}
    /\ Keys(pb_indicators) = {"A", "B"}
    /\ Len(panel) = 2

----------------------------------------------------------------------------
(* C13 *)

RatColumns ==
    {"exposure", "avgSim", "intensity", "mgmt_exposure", "mgmt_avgSim", "mgmt_intensity",
     "qa_exposure", "qa_avgSim", "qa_intensity"}

\* column c exists in the row and its cell holds zero
ZeroCell(row, c) ==
    /\ c \in DOMAIN row.cells
    /\ row.cells[c] # Unset
    /\ IF c \in RatColumns THEN row.cells[c][1].num = 0 ELSE row.cells[c][1] = 0

\* C13: in retrieve_hits -> build_indicators -> PanelBuilder.build, the row
\* of a call that has metadata but received no hit has zero in every
\* indicator column.
C13_NoHitCallAllZero ==
    pb_status = "ok" =>
        \A i \in 1..Len(panel) :
            panel[i].origin \notin Keys(hits_by_call) =>
                \A c \in DOMAIN EmptyIndicators : ZeroCell(panel[i], c)

----------------------------------------------------------------------------
(* C14 *)

\* field f is in no record of the metadata table
InNoRecord(meta_table, f) == \A k \in DOMAIN meta_table : f \notin DOMAIN meta_table[k]

\* C14: build ends with KeyError exactly when one of ticker, year, quarter
\* is in no metadata record at all; otherwise it returns a panel in which a
\* required field a record lacks is an unset cell of that record's row, and
\* a required field it has is that value.
C14_KeyErrorIffFieldInNoRecord ==
    pb_status # "none" =>
        /\ pb_status = "KeyError" <=>
               \E f \in RequiredCols : InNoRecord(call_metadata, f)
        /\ pb_status = "ok" =>
               \A i \in 1..Len(panel) : \A f \in RequiredCols :
                   panel[i].cells[f] =
                       IF f \in DOMAIN call_metadata[panel[i].origin]
                       THEN Cell(call_metadata[panel[i].origin][f])
                       ELSE Unset

\* a panel was built although a record lacks ticker and a record lacks
\* year and quarter
C14_Witness ==
    /\ pb_status = "ok"
    /\ \E i, j \in 1..Len(panel) :
           /\ panel[i].cells["ticker"] = Unset
           /\ panel[j].cells["year"] = Unset
           /\ panel[j].cells["quarter"] = Unset

----------------------------------------------------------------------------
(* C15 *)

RawKeys == {CandKey(raw[i]) : i \in 1..Len(raw)}

\* the first position in raw that holds key with its highest similarity
FirstBest(key) ==
    CHOOSE i \in 1..Len(raw) :
        /\ CandKey(raw[i]) = key
        /\ \A j \in 1..Len(raw) :
               CandKey(raw[j]) = key =>
                   \/ raw[j].similarity < raw[i].similarity
                   \/ (raw[j].similarity = raw[i].similarity /\ i <= j)

\* C15: deduplicate_candidates returns exactly one candidate for every
\* (call_id, faiss_id) key of its input and none for any other key; the one
\* kept is the input candidate of highest similarity with that key, the
\* first of them in input order when several share that similarity.
C15_DedupKeepsFirstBest ==
    cc_done =>
        /\ {CandKey(deduped[j]) : j \in 1..Len(deduped)} = RawKeys
        /\ Len(deduped) = Cardinality(RawKeys)
        /\ \A j \in 1..Len(deduped) : deduped[j] = raw[FirstBest(CandKey(deduped[j]))]

\* one key occurs three times: the second occurrence beats the first and
\* ties with the third
C15_Witness ==
    /\ cc_done
    /\ Len(raw) = 3
    /\ Cardinality(RawKeys) = 1
    /\ raw[1].similarity < raw[2].similarity
    /\ raw[2].similarity = raw[3].similarity
    /\ deduped = <<raw[2]>>

----------------------------------------------------------------------------
(* C16 *)

InBin(c, i) == Bins[i][1] <= c.similarity /\ c.similarity < Bins[i][2]

Smaller(a, b) == IF a <= b THEN a ELSE b

\* the deduplicated candidates that lie in bin i
BinMembers(i) == {deduped[j] : j \in {j \in 1..Len(deduped) : InBin(deduped[j], i)}}

\* the positions of the sample that hold a candidate of bin i
SampledFrom(i) == {k \in 1..Len(final) : InBin(final[k], i)}

\* C16: the sample holds, for every bin, exactly min(samples_per_bin,
\* bin size) pairwise distinct deduplicated candidates of that bin and
\* nothing else: at most samples_per_bin times the number of bins in all,
\* every sampled candidate lies in exactly one bin, and a candidate below
\* the lowest edge or on the top edge is never sampled.
C16_StratifiedSample ==
    cc_done =>
        /\ \A i \in 1..Len(Bins) :
               /\ Cardinality(SampledFrom(i)) =
                      Smaller(samples_per_bin, Cardinality(BinMembers(i)))
               /\ \A k \in SampledFrom(i) : final[k] \in BinMembers(i)
        /\ \A k, l \in 1..Len(final) : final[k] = final[l] => k = l
        /\ \A k \in 1..Len(final) :
               Cardinality({i \in 1..Len(Bins) : InBin(final[k], i)}) = 1
        /\ Len(final) <= samples_per_bin * Len(Bins)
        /\ \A k \in 1..Len(final) :
               /\ final[k].similarity >= Bins[Len(Bins)][1]
               /\ final[k].similarity # Bins[1][2]

\* one of two candidates of the upper bin was sampled, and a candidate on
\* the top edge was left out
C16_Witness ==
    /\ cc_done
    /\ samples_per_bin = 1
    /\ Cardinality(BinMembers(1)) = 2
    /\ \E j \in 1..Len(deduped) : deduped[j].similarity = Bins[1][2]
    /\ Len(final) = 1

----------------------------------------------------------------------------
(* C17 *)

\* text is "yes" in any letter case between two runs of whitespace
IsYesForm(text) ==
    \E i \in 1..Len(text) :
        /\ i + 2 <= Len(text)
        /\ text[i] \in {"y", "Y"}
        /\ text[i + 1] \in {"e", "E"}
        /\ text[i + 2] \in {"s", "S"}
        /\ \A k \in 1..Len(text) : (k < i \/ k > i + 2) => text[k] \in Whitespace

\* C17: the i-th labeled item is the i-th candidate with one more field,
\* label, which is 1 if the i-th response is "yes" once stripped and
\* lower-cased and 0 for any other response; when the labeling returns
\* there is one item per candidate.
C17_LabelOneIffYes ==
    /\ Len(labeled) <= Len(l_candidates)
    /\ l_done => Len(labeled) = Len(l_candidates)
    /\ \A i \in 1..Len(labeled) :
           /\ labeled[i].label \in {0, 1}
           /\ labeled[i].label = 1 <=> IsYesForm(l_answers[i])
           /\ DOMAIN labeled[i] = DOMAIN l_candidates[i] \cup {"label"}
           /\ \A f \in DOMAIN l_candidates[i] : labeled[i][f] = l_candidates[i][f]

\* two candidates were labeled: 1 for " YES\n", 0 for "yes."
C17_Witness ==
    /\ l_done
    /\ Len(labeled) = 2
    /\ l_answers = << <<" ", "Y", "E", "S", "\n">>, <<"y", "e", "s", ".">> >>
    /\ labeled[1].label = 1
    /\ labeled[2].label = 0
    /\ labeled[1].call_id # labeled[2].call_id

----------------------------------------------------------------------------
(* C18 *)

\* the samples predicted positive (v = 1) or negative (v = 0) at tau that
\* carry label y
SamplesAt(tau, v, y) ==
    {i \in 1..Len(scores) : (scores[i] >= tau <=> v = 1) /\ labels[i] = y}

\* x is n / d, or 0 when d is 0
RatioOrZero(x, n, d) ==
    /\ x.den > 0
    /\ IF d = 0 THEN x.num = 0 ELSE x.num * d = n * x.den

\* C18: every sweep result counts as TP, FP, FN, TN the samples with
\* score >= tau (resp. < tau) and label 1 (resp. 0), the four counts sum to
\* the number of samples, and precision = TP/(TP+FP), recall = TP/(TP+FN),
\* fpr = FP/(FP+TN), f1 = 2PR/(P+R), each 0 when its denominator is 0.
C18_MetricsFormulas ==
    sweep_done =>
        \A k \in 1..Len(sweep_results) :
            LET r == sweep_results[k]
            IN  /\ r.TP = Cardinality(SamplesAt(r.threshold, 1, 1))
                /\ r.FP = Cardinality(SamplesAt(r.threshold, 1, 0))
                /\ r.FN = Cardinality(SamplesAt(r.threshold, 0, 1))
                /\ r.TN = Cardinality(SamplesAt(r.threshold, 0, 0))
                /\ r.TP + r.FP + r.FN + r.TN = Len(scores)
                /\ RatioOrZero(r.precision, r.TP, r.TP + r.FP)
                /\ RatioOrZero(r.recall, r.TP, r.TP + r.FN)
                /\ RatioOrZero(r.fpr, r.FP, r.FP + r.TN)
                /\ r.f1.den > 0
                /\ IF RatEq(RatAdd(r.precision, r.recall), RatZero)
                   THEN r.f1.num = 0
                   ELSE RatEq(RatMul(r.f1, RatAdd(r.precision, r.recall)),
                              RatMul(Rat(2, 1), RatMul(r.precision, r.recall)))

\* a sweep with a result that predicts nothing positive although a positive
\* sample exists, and a result with true and false positives, one of them
\* scored exactly at the threshold
C18_Witness ==
    /\ sweep_done
    /\ \E k \in 1..Len(sweep_results) :
           /\ sweep_results[k].TP + sweep_results[k].FP = 0
           /\ sweep_results[k].FN > 0
    /\ \E k \in 1..Len(sweep_results) :
           /\ sweep_results[k].TP > 0
           /\ sweep_results[k].FP > 0
           /\ \E i \in 1..Len(scores) : scores[i] = sweep_results[k].threshold

----------------------------------------------------------------------------
(* C19 *)

\* the score the strategy maximises
StrategyScore(r) == IF strategy = "f1" THEN r.f1 ELSE RatSub(r.recall, r.fpr)

\* C19: for strategy f1 or youden on a non-empty sweep, pick_best_threshold
\* returns a sweep result whose score (f1, resp. recall - fpr) no other
\* result exceeds, and no result of equal score has a lower tau; for any
\* other strategy it ends with ValueError.
C19_PickFirstMaximum ==
    pick_status # "none" =>
        /\ strategy \notin {"f1", "youden"} => pick_status = "ValueError"
        /\ (strategy \in {"f1", "youden"} /\ sweep_results # <<>>) =>
               /\ pick_status = "ok"
               /\ \E k \in 1..Len(sweep_results) : best = sweep_results[k]
               /\ \A j \in 1..Len(sweep_results) :
                      /\ RatLeq(StrategyScore(sweep_results[j]), StrategyScore(best))
                      /\ RatEq(StrategyScore(sweep_results[j]), StrategyScore(best)) =>
                             best.threshold <= sweep_results[j].threshold

\* two thresholds tie at the maximal, non-zero f1; the middle one of the
\* sweep was returned, being the lower of the two
C19_Witness ==
    /\ pick_status = "ok"
    /\ strategy = "f1"
    /\ Len(sweep_results) = 3
    /\ best = sweep_results[2]
    /\ best.f1.num > 0
    /\ RatLess(sweep_results[1].f1, best.f1)
    /\ RatEq(sweep_results[3].f1, best.f1)

----------------------------------------------------------------------------
(* C20 *)

\* C20: of two results of one sweep, the one with the higher tau has no
\* higher recall, TP, FP or fpr.
C20_RecallNonIncreasing ==
    sweep_done =>
        \A i, j \in 1..Len(sweep_results) :
            sweep_results[i].threshold < sweep_results[j].threshold =>
                /\ RatLeq(sweep_results[j].recall, sweep_results[i].recall)
                /\ sweep_results[j].TP <= sweep_results[i].TP
                /\ sweep_results[j].FP <= sweep_results[i].FP
                /\ RatLeq(sweep_results[j].fpr, sweep_results[i].fpr)

\* recall and fpr both drop strictly between two swept thresholds
C20_Witness ==
    /\ sweep_done
    /\ \E i, j \in 1..Len(sweep_results) :
           /\ sweep_results[i].threshold < sweep_results[j].threshold
           /\ RatLess(sweep_results[j].recall, sweep_results[i].recall)
           /\ RatLess(sweep_results[j].fpr, sweep_results[i].fpr)

----------------------------------------------------------------------------
(* C21 *)

\* the sweep result at position i predicts no sample positive
NonePredicted(i) == sweep_results[i].TP + sweep_results[i].FP = 0

\* C21 as stated: on a separable labeled set, of two swept thresholds the
\* higher one has no lower precision.
C21_Original ==
    sweep_done =>
        \A i, j \in 1..Len(sweep_results) :
            sweep_results[i].threshold < sweep_results[j].threshold =>
                RatLeq(sweep_results[i].precision, sweep_results[j].precision)

\* C21: on a separable labeled set, of two swept thresholds the higher one
\* has no lower precision as long as it still predicts some sample positive;
\* a threshold above every similarity has precision 0.
C21_PrecisionNonDecreasing ==
    sweep_done =>
        \A j \in 1..Len(sweep_results) :
            IF NonePredicted(j)
            THEN RatEq(sweep_results[j].precision, RatZero)
            ELSE \A i \in 1..Len(sweep_results) :
                     sweep_results[i].threshold < sweep_results[j].threshold =>
                         RatLeq(sweep_results[i].precision, sweep_results[j].precision)

\* precision rises strictly between two swept thresholds and is 0 at a
\* third, higher one
C21_Witness ==
    /\ sweep_done
    /\ Len(sweep_results) = 11
    /\ \E i, j, k \in 1..Len(sweep_results) :
           /\ i < j /\ j < k
           /\ RatLess(sweep_results[i].precision, sweep_results[j].precision)
           /\ ~NonePredicted(j)
           /\ NonePredicted(k)

----------------------------------------------------------------------------
(* C22 *)

\* every sample labeled 0 has a similarity below tau
AboveNegatives(tau) ==
    \A i \in 1..Len(scores) : labels[i] = 0 => scores[i] < tau

\* precision, recall and F1 of a sweep result are all 1
Perfect(r) ==
    /\ RatEq(r.precision, Rat(1, 1))
    /\ RatEq(r.recall, Rat(1, 1))
    /\ RatEq(r.f1, Rat(1, 1))

----------------------------------------------------------------------------
(* C23 *)

\* the answers that confirm an overwrite
YesForms == {Cell(<<"y">>), Cell(<<"y", "e", "s">>)}

\* main is past the collection in an expert-mode run with --export
ExportPending == run_pc = "collected" /\ args.mode = "expert" /\ args.export

\* C23: an existing annotation file changes only in an expert export whose
\* prompt was answered 'y' or 'yes'; with any other answer the export leaves
\* the file as it was and the run ends, in every run.
C23_ExportGuard ==
    [][/\ (annotation_file # Unset /\ annotation_file' # annotation_file) =>
              (ExportPending /\ confirm' \in YesForms)
       /\ (ExportPending /\ annotation_file # Unset /\ confirm' \notin YesForms) =>
              (annotation_file' = annotation_file /\ run_pc' = "returned")]_vars

\* the second run was an export answered 'n': it returned and the file is not
\* the export of its candidates
C23_Witness ==
    /\ runs = 2
    /\ run_pc = "returned"
    /\ args.mode = "expert" /\ args.export
    /\ confirm = Cell(<<"n">>)
    /\ annotation_file # Unset
    /\ annotation_file # Cell(ExportForManualAnnotation(run_candidates))

----------------------------------------------------------------------------
(* C24 *)

----------------------------------------------------------------------------
(* C25 *)

----------------------------------------------------------------------------
(* C26 *)

\* the run got past the construction of the retriever and the collection
PastCollection ==
    /\ run_pc \notin {"idle", "loaded", "constructed", "collected"}
    /\ ~(run_pc = "raised" /\ run_error \in {"TypeError", "Exception"})

----------------------------------------------------------------------------
(* C27 *)

\* C27: the configuration file changes only in PERSIST, and the record saved
\* has the keys of the loaded one (and threshold), threshold equal to the
\* selected tau and every other key with the value it was loaded with.
C27_OnlyThreshold ==
    [][(config_file' # config_file \/ (run_pc # "persisted" /\ run_pc' = "persisted")) =>
          /\ run_pc = "extracted" /\ run_pc' = "persisted"
          /\ queries = config_file
          /\ JsonKeys(config_file') = JsonKeys(config_file) \cup {"threshold"}
          /\ Len(config_file') = Cardinality(JsonKeys(config_file'))
          /\ JsonGet(config_file', "threshold") = [kind |-> "number",
                                                   num |-> best.threshold, text |-> ""]
          /\ \A k \in JsonKeys(config_file) \ {"threshold"} :
                 JsonGet(config_file', k) = JsonGet(config_file, k)]_vars

\* a configuration with a threshold of 0.55 and a notes key was saved with a
\* different threshold and the same notes
C27_Witness ==
    /\ run_pc = "persisted"
    /\ JsonKeys(config_file) = {"description", "threshold", "queries", "notes"}
    /\ JsonGet(config_file, "threshold").num = best.threshold
    /\ best.threshold # 55
    /\ JsonGet(config_file, "notes").text = "n"

----------------------------------------------------------------------------
(* C28 *)

\* the capital of a key letter
UpperOf == ("y" :> "Y") @@ ("n" :> "N") @@ ("q" :> "Q")

\* the key is the letter c in either case
IsKey(ch, c) == ch \in {<<c>>, <<UpperOf[c]>>}

\* number of keys read before the first quit key
RECURSIVE BeforeQuit(_)
BeforeQuit(ks) ==
    IF ks = <<>> \/ IsKey(Head(ks), "q") THEN 0 ELSE 1 + BeforeQuit(Tail(ks))

\* C28: interactive_review returns exactly the items presented before the
\* first 'q', in presentation order, each with its own fields and label_human
\* 1 for 'y', 0 for 'n' and None for any other key; the item at which 'q' was
\* pressed and the later ones are not returned (keys count in either case).
C28_ReviewedBeforeQuit ==
    LET n == BeforeQuit(rv_keys)
    IN  /\ Len(rv_annotated) = n
        /\ \A i \in 1..n :
               /\ \A f \in DOMAIN rv_sample[i] : rv_annotated[i][f] = rv_sample[i][f]
               /\ DOMAIN rv_annotated[i] = DOMAIN rv_sample[i] \cup {"label_human"}
               /\ rv_annotated[i].label_human =
                      IF IsKey(rv_keys[i], "y") THEN <<1>>
                      ELSE IF IsKey(rv_keys[i], "n") THEN <<0>>
                      ELSE <<>>
        /\ rv_pc = "returned" => (n < Len(rv_keys) \/ n = Len(rv_sample))
        /\ n < Len(rv_keys) => (rv_pc = "returned" /\ Len(rv_keys) = n + 1)

\* the review was stopped at the second of two items after the first was
\* labeled 0
C28_Witness ==
    /\ rv_pc = "returned"
    /\ Len(rv_sample) = 2
    /\ rv_keys = <<<<"n">>, <<"Q">>>>
    /\ Len(rv_annotated) = 1
    /\ rv_annotated[1].label_human = <<0>>
    /\ rv_annotated[1].text = rv_sample[1].text

----------------------------------------------------------------------------
(* C29 *)

\* C29: in a hybrid run that persists, the swept pairs are the similarities
\* and LLM labels of the sample's items before the first 'q', and the saved
\* threshold is the one selected for them: it is determined by the sample and
\* the quit position, whatever y/n/s keys were pressed.
C29_HumanLabelsIgnored ==
    (run_pc = "persisted" /\ args.mode = "hybrid") =>
        LET n    == BeforeQuit(rv_keys)
            sims == [i \in 1..n |-> rv_sample[i].similarity]
            llm  == [i \in 1..n |-> rv_sample[i].label]
        IN  /\ scores = sims
            /\ labels = llm
            /\ best = PickBestThreshold(SweepThresholds(sims, llm, 40, 60, 2), "f1").best
            /\ JsonGet(config_file, "threshold").num = best.threshold

\* a hybrid run persisted after the human contradicted the LLM on both items
C29_Witness ==
    /\ run_pc = "persisted"
    /\ args.mode = "hybrid"
    /\ Len(run_labeled) = 2
    /\ \A i \in 1..2 : run_labeled[i].label_human = <<1 - run_labeled[i].label>>
    /\ labels = [i \in 1..2 |-> run_labeled[i].label]

----------------------------------------------------------------------------
(* C30 *)

\* the (index, row position) places that hold a result, not a filler
Places ==
    {pl \in (1..Len(se_indexes)) \X (1..se_top_k) : se_indexes[pl[1]][pl[2]].faiss_id >= 0}

\* the result at position i of the output is the pair at place pl
FromPlace(i, pl) ==
    /\ se_out[i].index_name = IndexNames[pl[1]]
    /\ se_out[i].faiss_id = se_indexes[pl[1]][pl[2]].faiss_id
    /\ se_out[i].score = se_indexes[pl[1]][pl[2]].score

\* C30: search_by_embedding returns at most top_k results, in non-increasing
\* score order, none with a negative id, and they are the top_k
\* highest-scoring of the results the loaded indexes returned: each comes from
\* one place, no place is used twice, all are returned when there are at most
\* top_k, and no result left out scores higher than one returned.
C30_TopKOfUnion ==
    se_pc = "returned" =>
        /\ Len(se_out) <= se_top_k
        /\ \A i \in 1..(Len(se_out) - 1) : se_out[i].score >= se_out[i + 1].score
        /\ \A i \in 1..Len(se_out) : se_out[i].faiss_id >= 0
        /\ Len(se_out) = IF Cardinality(Places) < se_top_k
                         THEN Cardinality(Places) ELSE se_top_k
        /\ \E used \in [1..Len(se_out) -> Places] :
               /\ \A i \in 1..Len(se_out) : FromPlace(i, used[i])
               /\ \A i, j \in 1..Len(se_out) : used[i] = used[j] => i = j
               /\ \A pl \in Places \ {used[i] : i \in 1..Len(se_out)} :
                      \A i \in 1..Len(se_out) :
                          se_indexes[pl[1]][pl[2]].score <= se_out[i].score

\* two indexes were searched with top_k = 2: one returned a filler, three
\* results were found, and the two returned come from different indexes
C30_Witness ==
    /\ se_pc = "returned"
    /\ Len(se_indexes) = 2
    /\ se_top_k = 2
    /\ Cardinality(Places) = 3
    /\ Len(se_out) = 2
    /\ se_out[1].index_name # se_out[2].index_name
    /\ se_out[1].score > se_out[2].score

====
